---- MODULE Spec2Model ----
(***************************************************************************)
(* droidvold: the Disk / PublicVolume lifecycle engine, the command        *)
(* dispatcher and the kernel objects they act on (device nodes, mount      *)
(* points, kernel mounts), as a state machine.                             *)
(*                                                                         *)
(* Disk.cpp, PublicVolume.cpp and CommandListener.cpp are translated from  *)
(* the source.  VolumeBase, VolumeManager and Utils are not part of the    *)
(* sources at hand; their operators follow the written specification and   *)
(* are marked as such where they are defined.                              *)
(***************************************************************************)
EXTENDS Integers, Sequences, FiniteSets, Bags, TLC

VARIABLES
    mDisks,     \* VolumeManager registry: disk name -> Disk object
    mounts,     \* kernel mount table: bag of [target, fs]
    dirs,       \* directories that exist under /mnt/media_rw
    nodes,      \* device nodes under /dev/block/droidvold: set of [path, dev]
    out,        \* broadcasts sent by the last handler, in order
    ret,        \* the last handler: [by, op, id, res, code, was]
    log,        \* every broadcast sent so far (observer of the broadcaster)
    calls,      \* helper programs and syscalls invoked by the last handler
    mLock,      \* holder of the VolumeManager lock, "" when free
    pc,         \* position of each thread
    mLoop,      \* the loop slot: "" when empty, else the host path
    mShutdown,  \* set by shutdown: block events are refused from then on
    given       \* what the environment answered to the last scan (SpecInputs)

vars == <<mDisks, mounts, dirs, nodes, out, ret, log, calls, mLock, pc, mLoop,
          mShutdown, given>>

-----------------------------------------------------------------------------
(* Status codes and errno values                                           *)

OK == 0
EIO == 5
EBUSY == 16
EINVAL == 22
ENOTSUP == 95
ENOENT == 2
ENOTCONN == 107
EACCES == 13

(* Block majors                                                            *)
kMajorBlockScsiA == 8
kMajorBlockSr == 11
kMajorBlockMmc == 179

ScsiMajors == {8, 65, 66, 67, 68, 69, 70, 71, 128, 129, 130, 131, 132, 133, 134, 135}

kGptBasicData == "EBD0A0A2-B9E5-4433-87C0-68B6B72699C7"

-----------------------------------------------------------------------------
(* Bounds of the model                                                     *)

MaxVolumes == 2     \* an optical disk is rescanned while its list is shorter
MaxLog == 8         \* longest broadcast history the observer keeps
MaxDisks == 1       \* disks present at a time in the scanner's specifications

-----------------------------------------------------------------------------
(* Devices and identities                                                  *)

major(dev) == dev[1]
minor(dev) == dev[2]
makedev(ma, mi) == <<ma, mi>>

DiskId(dev) == "disk:" \o ToString(major(dev)) \o "," \o ToString(minor(dev))
PublicId(dev) == "public:" \o ToString(major(dev)) \o "," \o ToString(minor(dev))
NodePath(id) == "/dev/block/droidvold/" \o id
RawPathOf(stableName) == "/mnt/media_rw/" \o stableName

StartsWith(s, p) == Len(s) >= Len(p) /\ SubSeq(s, 1, Len(p)) = p

-----------------------------------------------------------------------------
(* Kernel objects (Utils: CreateDeviceNode, DestroyDeviceNode, ForceUnmount,*)
(* and the syscalls the source calls directly)                             *)

NodeAt(k, path) == {n \in k.nodes : n.path = path}

\* mknod; an existing node is kept as it is
CreateDeviceNode(k, path, dev) ==
    IF NodeAt(k, path) # {} THEN [k EXCEPT !.calls = Append(@, "CreateDeviceNode")]
    ELSE [k EXCEPT !.calls = Append(@, "CreateDeviceNode"),
                   !.nodes = @ \cup {[path |-> path, dev |-> dev]}]

DestroyDeviceNode(k, path) ==
    [k EXCEPT !.calls = Append(@, "DestroyDeviceNode"), !.nodes = @ \ NodeAt(k, path)]

MountsAt(k, path) == {m \in BagToSet(k.mounts) : m.target = path}

RECURSIVE SumCopies(_, _)
SumCopies(S, b) ==
    IF S = {} THEN 0
    ELSE LET e == CHOOSE x \in S : TRUE
         IN CopiesIn(e, b) + SumCopies(S \ {e}, b)

\* number of kernel mounts whose target is path
NMounts(k, path) == SumCopies(MountsAt(k, path), k.mounts)

isMountpointMounted(k, path) == NMounts(k, path) > 0

KernelMount(k, path, fs) ==
    [k EXCEPT !.mounts = @ (+) SetToBag({[target |-> path, fs |-> fs]})]

\* one umount of the topmost mount at path
KernelUmount(k, path) ==
    IF MountsAt(k, path) = {} THEN k
    ELSE LET m == CHOOSE x \in MountsAt(k, path) : TRUE
         IN [k EXCEPT !.mounts = @ (-) SetToBag({m})]

RECURSIVE ForceUnmount(_, _)
ForceUnmount(k, path) ==
    IF MountsAt(k, path) = {} THEN k
    ELSE ForceUnmount(KernelUmount(k, path), path)

\* rmdir fails on a mount point and on a missing directory
Rmdir(k, path) ==
    IF isMountpointMounted(k, path) THEN k
    ELSE [k EXCEPT !.dirs = @ \ {path}]

MkDir(k, path) == [k EXCEPT !.dirs = @ \cup {path}]

-----------------------------------------------------------------------------
(* The world a handler acts on: w = [mounts, dirs, nodes, out, calls, loop] *)

Call(w, name) == [w EXCEPT !.calls = Append(@, name)]

-----------------------------------------------------------------------------
(* PublicVolume.  A method takes s = [v, w]: the volume object and the     *)
(* world, and returns [v, w, res].                                         *)

\* PublicVolume::PublicVolume(dev_t)
NewPublicVolume(device) ==
    [mId |-> PublicId(device), mDevice |-> device, mJustPhysicalDev |-> FALSE,
     mDevPath |-> NodePath(PublicId(device)),
     mFsType |-> "", mFsUuid |-> "", mFsLabel |-> "",
     mRawPath |-> "", mPath |-> "", mInternalPath |-> "",
     mFusePid |-> 0, mSrMounted |-> FALSE,
     mState |-> "UNMOUNTED", mCreated |-> FALSE, mSilent |-> FALSE,
     mDiskId |-> "", mSysPath |-> "", mMountFlags |-> 0, mMountUserId |-> -1]

\* PublicVolume::PublicVolume(physicalDevName): mDevice and mSrMounted are
\* left uninitialized, so they hold whatever the allocation held
NewPhysicalVolume(physicalDevName, garbageDev, garbageSr) ==
    [mId |-> physicalDevName, mDevice |-> garbageDev, mJustPhysicalDev |-> TRUE,
     mDevPath |-> "/dev/block/" \o physicalDevName,
     mFsType |-> "", mFsUuid |-> "", mFsLabel |-> "",
     mRawPath |-> "", mPath |-> "", mInternalPath |-> "",
     mFusePid |-> 0, mSrMounted |-> garbageSr,
     mState |-> "UNMOUNTED", mCreated |-> FALSE, mSilent |-> FALSE,
     mDiskId |-> "", mSysPath |-> "", mMountFlags |-> 0, mMountUserId |-> -1]

\* VolumeBase::notifyEvent: nothing is sent while the volume is silent
VolumeNotify(v, w, code, val) ==
    IF v.mSilent THEN w
    ELSE [w EXCEPT !.out = Append(@, [code |-> code, id |-> v.mId, val |-> val])]

\* the uuid readMetadata stores: a made-up one when the probe found none
FsUuid(v, probe) ==
    IF probe.uuid = ""
    THEN (IF major(v.mDevice) = kMajorBlockSr THEN "sr0" ELSE "fakeUuid")
    ELSE probe.uuid

\* PublicVolume::readMetadata; probe is what ReadMetadataUntrusted returns
readMetadata(s, probe) ==
    [v |-> [s.v EXCEPT !.mFsType = probe.fsType, !.mFsUuid = FsUuid(s.v, probe),
                       !.mFsLabel = probe.label],
     w |-> VolumeNotify(s.v,
             VolumeNotify(s.v,
               VolumeNotify(s.v, Call(s.w, "blkid"),
                            "VolumeFsTypeChanged", probe.fsType),
               "VolumeFsUuidChanged", FsUuid(s.v, probe)),
             "VolumeFsLabelChanged", probe.label),
     res |-> probe.res]

\* PublicVolume::doCreate
doCreate(s) ==
    IF s.v.mJustPhysicalDev THEN [v |-> s.v, w |-> s.w, res |-> OK]
    ELSE [v |-> s.v, w |-> CreateDeviceNode(s.w, s.v.mDevPath, s.v.mDevice), res |-> OK]

\* PublicVolume::doDestroy
doDestroy(s) ==
    IF s.v.mJustPhysicalDev THEN [v |-> s.v, w |-> s.w, res |-> OK]
    ELSE [v |-> s.v, w |-> DestroyDeviceNode(s.w, s.v.mDevPath), res |-> OK]

\* PublicVolume::prepareDir; e.prep1, e.um, e.prep2 are the results of the
\* first fs_prepare_dir, of umount2(MNT_DETACH) and of the second fs_prepare_dir
prepareDir_ignoresUmount(w, path, e) ==
    LET w1 == Call(w, "fs_prepare_dir")
    IN IF e.prep1 = OK THEN [w |-> MkDir(w1, path), res |-> OK, errno |-> 0]
       ELSE LET w2 == Call(Call(w1, "umount2"), "fs_prepare_dir")
            IN IF e.prep2 # OK THEN [w |-> w2, res |-> -1, errno |-> e.prep2]
               ELSE [w |-> MkDir(w2, path), res |-> OK, errno |-> 0]

prepareDir(w, path, e) ==
    LET w1 == Call(w, "fs_prepare_dir")
    IN IF e.prep1 = OK THEN [w |-> MkDir(w1, path), res |-> OK, errno |-> 0]
       ELSE IF e.prep1 = ENOTCONN
       THEN LET w2 == Call(w1, "umount2")
                w3 == IF e.um = OK THEN KernelUmount(w2, path) ELSE w2
            IN IF e.um = OK \/ e.um = EINVAL \/ e.um = ENOENT
               THEN LET w4 == Call(w3, "fs_prepare_dir")
                    IN IF e.prep2 # OK
                       THEN [w |-> w4, res |-> -1, errno |-> e.prep2]
                       ELSE [w |-> MkDir(w4, path), res |-> OK, errno |-> 0]
               ELSE [w |-> w3, res |-> -1, errno |-> e.um]
       ELSE [w |-> w1, res |-> -1, errno |-> e.prep1]

IsExt(fsType) == StartsWith(fsType, "ext")

\* the filesystem test at the head of doMount
SupportedFs(fsType) ==
    \/ fsType = "vfat"
    \/ fsType = "ntfs"
    \/ fsType = "exfat"
    \/ IsExt(fsType)
    \/ fsType = "hfs"
    \/ fsType = "iso9660"
    \/ fsType = "udf"

\* the stable name: the uuid when there is one, else the id
StableName(v) == IF v.mFsUuid # "" THEN v.mFsUuid ELSE v.mId

\* iso9660::Check: an iso or udf medium needs no check, the helper reports
\* success whatever is on it
Iso9660Check(e) == 0

\* a pre-mount check that takes the status of the ext check as well
CheckFs_checksExt(v, w, e) ==
    IF SupportedFs(v.mFsType) THEN [w |-> Call(w, "Check"), status |-> e.check]
    ELSE [w |-> w, status |-> -1]

\* the pre-mount check of doMount
CheckFs(v, w, e) ==
    IF v.mFsType = "vfat" THEN [w |-> Call(w, "vfat::Check"), status |-> e.check]
    ELSE IF v.mFsType = "ntfs" THEN [w |-> Call(w, "ntfs::Check"), status |-> e.check]
    ELSE IF v.mFsType = "exfat" THEN [w |-> Call(w, "exfat::Check"), status |-> e.check]
    ELSE IF IsExt(v.mFsType) THEN [w |-> w, status |-> 0]
    ELSE IF v.mFsType = "hfs" THEN [w |-> Call(w, "hfsplus::Check"), status |-> e.check]
    ELSE IF v.mFsType = "iso9660" \/ v.mFsType = "udf"
    THEN [w |-> Call(w, "iso9660::Check"), status |-> Iso9660Check(e)]
    ELSE [w |-> w, status |-> -1]

\* one mount helper: the kernel mount appears when it succeeds
MountWith(v, w, e) ==
    IF e.mnt = 0 THEN [v |-> v, w |-> KernelMount(w, v.mRawPath, v.mFsType), status |-> 0]
    ELSE [v |-> v, w |-> w, status |-> e.mnt]

\* the mount helper dispatch of doMount
MountFs(v, w, e) ==
    IF v.mFsType = "vfat" THEN MountWith(v, Call(w, "vfat::Mount"), e)
    ELSE IF v.mFsType = "ntfs" THEN MountWith(v, Call(w, "ntfs::Mount"), e)
    ELSE IF v.mFsType = "exfat" THEN MountWith(v, Call(w, "exfat::Mount"), e)
    ELSE IF IsExt(v.mFsType)
    THEN MountWith(v, Call(Call(w, "ext4::Check"), "ext4::Mount"), e)
    ELSE IF v.mFsType = "hfs" THEN MountWith(v, Call(w, "hfsplus::Mount"), e)
    ELSE IF v.mFsType = "iso9660" \/ v.mFsType = "udf"
    THEN (IF e.mnt = 0
          THEN MountWith([v EXCEPT !.mSrMounted = TRUE], Call(w, "iso9660::Mount"), e)
          ELSE MountWith(v, Call(w, "iso9660::Mount"), e))
    ELSE [v |-> v, w |-> w, status |-> -1]

\* doMount after the mount helper m = MountFs(..): the status test, then
\* chown and restorecon for the ext family
doMountOwned(m, e) ==
    IF m.status # 0
    THEN [v |-> m.v, w |-> m.w, res |-> -EIO, why |-> "mount"]
    ELSE IF IsExt(m.v.mFsType)
    THEN (IF e.chown # OK
          THEN [v |-> m.v, w |-> Call(m.w, "chown"), res |-> e.chown, why |-> "chown"]
          ELSE [v |-> m.v, w |-> Call(Call(m.w, "chown"), "restorecon"),
                res |-> OK, why |-> "mounted"])
    ELSE [v |-> m.v, w |-> m.w, res |-> OK, why |-> "mounted"]

NeedsLogicalDevice(v) ==
    ~v.mJustPhysicalDev /\ (v.mFsType = "ntfs" \/ v.mFsType = "exfat")

\* doMount from "Mount device" on
doMountDevice(v, w, e) ==
    IF NeedsLogicalDevice(v)
    THEN (IF e.lpd # OK
          THEN [v |-> v, w |-> Call(w, "GetLogicalPartitionDevice"),
                res |-> -e.lpd, why |-> "lpd"]
          ELSE doMountOwned(MountFs(v, Call(w, "GetLogicalPartitionDevice"), e), e))
    ELSE doMountOwned(MountFs(v, w, e), e)

\* doMount after prepareDir returned p
doMountPrepared(v, p, e) ==
    IF p.res # 0 THEN [v |-> v, w |-> p.w, res |-> -p.errno, why |-> "prepare"]
    ELSE doMountDevice(v, p.w, e)

\* doMount after the filesystem check returned c
doMountChecked(v, c, e) ==
    IF c.status # 0 THEN [v |-> v, w |-> c.w, res |-> -EIO, why |-> "check"]
    ELSE doMountPrepared([v EXCEPT !.mInternalPath = v.mRawPath, !.mPath = v.mRawPath],
                         prepareDir(c.w, v.mRawPath, e), e)

\* doMount once mRawPath is set
doMountAt(v, w, e) ==
    IF isMountpointMounted(w, v.mRawPath)
    THEN [v |-> v, w |-> w, res |-> -EIO, why |-> "already"]
    ELSE doMountChecked(v, CheckFs(v, w, e), e)

\* doMount after readMetadata returned r
doMountProbed(r, e) ==
    IF ~SupportedFs(r.v.mFsType)
    THEN [v |-> r.v, w |-> r.w, res |-> -EIO, why |-> "unsupported"]
    ELSE IF ~r.v.mJustPhysicalDev /\ r.v.mFsType = "vfat"
    THEN [v |-> r.v, w |-> r.w, res |-> 0, why |-> "deferred"]
    ELSE doMountAt([r.v EXCEPT !.mRawPath = RawPathOf(StableName(r.v))], r.w, e)

\* PublicVolume::doMount; why names the return statement taken
doMount(s, probe, e) == doMountProbed(readMetadata(s, probe), e)

\* VolumeManager::unmountLoopIfNeed: releases the loop slot when its host
\* file lives on the volume with this stable name
unmountLoopIfNeed(w, stableName) ==
    IF w.loop # "" /\ StartsWith(w.loop, RawPathOf(stableName) \o "/")
    THEN [Call(w, "unmountloop") EXCEPT !.loop = ""]
    ELSE w

\* a kill of the FUSE process whatever its pid
KillFuse_always(v, w) == Call(w, "kill")

\* the kill of the FUSE process in doUnmount
KillFuse(v, w) == IF v.mFusePid > 0 THEN Call(w, "kill") ELSE w

\* a doUnmount without the rmdir of the mount point
doUnmount_leavesDirectory(s) ==
    [v |-> [s.v EXCEPT !.mFusePid = 0, !.mRawPath = ""],
     w |-> Call(KillFuse(s.v,
                  ForceUnmount(Call(unmountLoopIfNeed(Call(s.w, "KillProcessesUsingPath"),
                                                      StableName(s.v)),
                                    "ForceUnmount"),
                               s.v.mRawPath)),
                "rmdir"),
     res |-> OK]

\* PublicVolume::doUnmount
doUnmount(s) ==
    [v |-> [s.v EXCEPT !.mFusePid = 0, !.mRawPath = ""],
     w |-> Rmdir(Call(KillFuse(s.v,
                   ForceUnmount(Call(unmountLoopIfNeed(Call(s.w, "KillProcessesUsingPath"),
                                                       StableName(s.v)),
                                     "ForceUnmount"),
                                s.v.mRawPath)),
                 "rmdir"),
                 s.v.mRawPath),
     res |-> OK]

\* a doFormat that formats without wiping first
doFormat_withoutWipe(s, fsType, e) ==
    IF fsType = "vfat" \/ fsType = "auto"
    THEN [v |-> s.v, w |-> Call(s.w, "vfat::Format"),
          res |-> IF e.format # 0 THEN -e.format ELSE OK]
    ELSE [v |-> s.v, w |-> s.w, res |-> -EINVAL]

\* PublicVolume::doFormat; e.format is the formatter's result
doFormat(s, fsType, e) ==
    IF fsType = "vfat" \/ fsType = "auto"
    THEN [v |-> s.v, w |-> Call(Call(s.w, "WipeBlockDevice"), "vfat::Format"),
          res |-> IF e.format # 0 THEN -e.format ELSE OK]
    ELSE [v |-> s.v, w |-> s.w, res |-> -EINVAL]

-----------------------------------------------------------------------------
(* VolumeBase: the public wrappers around the do* methods.  Not among the  *)
(* sources; written from the specification's sections 4.3 and 7.           *)

\* create(): absent -> UNMOUNTED, device node when owned, VolumeCreated
VolumeCreate(s) ==
    [v |-> [s.v EXCEPT !.mCreated = TRUE, !.mState = "UNMOUNTED"],
     w |-> VolumeNotify(s.v, doCreate(s).w, "VolumeCreated", s.v.mDiskId),
     res |-> OK]

\* unmount(): only from MOUNTED; ends UNMOUNTED whatever doUnmount returns
VolumeUnmount(s) ==
    IF s.v.mState # "MOUNTED" THEN [v |-> s.v, w |-> s.w, res |-> -EBUSY]
    ELSE [doUnmount([s EXCEPT !.v.mState = "EJECTING"]) EXCEPT !.v.mState = "UNMOUNTED"]

\* destroy() once a MOUNTED volume is unmounted: removes the node when
\* owned, then VolumeDestroyed
VolumeDestroyUnmounted(u) ==
    [v |-> [u.v EXCEPT !.mState = "REMOVED", !.mCreated = FALSE],
     w |-> VolumeNotify(u.v, doDestroy(u).w, "VolumeDestroyed", ""),
     res |-> OK]

\* destroy(): unmounts a MOUNTED volume first
VolumeDestroy(s) ==
    IF s.v.mState = "MOUNTED" THEN VolumeDestroyUnmounted(VolumeUnmount(s))
    ELSE VolumeDestroyUnmounted(s)

\* mount() after doMount returned r: MOUNTED and VolumeStateChanged on
\* success; on failure UNMOUNTABLE for an unsupported filesystem, else back
\* to UNMOUNTED
VolumeMounted(r) ==
    IF r.res = OK
    THEN [v |-> [r.v EXCEPT !.mState = "MOUNTED"],
          w |-> VolumeNotify(r.v, r.w, "VolumeStateChanged", "MOUNTED"),
          res |-> r.res, why |-> r.why]
    ELSE IF r.why = "unsupported"
    THEN [r EXCEPT !.v.mState = "UNMOUNTABLE"]
    ELSE [r EXCEPT !.v.mState = "UNMOUNTED"]

\* mount(): only from UNMOUNTED
VolumeMount(s, probe, e) ==
    IF s.v.mState # "UNMOUNTED"
    THEN [v |-> s.v, w |-> s.w, res |-> -EBUSY, why |-> "state"]
    ELSE VolumeMounted(doMount([s EXCEPT !.v.mState = "CHECKING"], probe, e))

\* format(): only from UNMOUNTED or UNMOUNTABLE; ends UNMOUNTED
VolumeFormat(s, fsType, e) ==
    IF s.v.mState \notin {"UNMOUNTED", "UNMOUNTABLE"}
    THEN [v |-> s.v, w |-> s.w, res |-> -EBUSY]
    ELSE [doFormat([s EXCEPT !.v.mState = "FORMATTING"], fsType, e)
             EXCEPT !.v.mState = "UNMOUNTED"]

-----------------------------------------------------------------------------
(* Disk.  A method takes x = [d, w]: the disk object and the world, and    *)
(* returns x with both updated (and res where the method returns one).     *)

\* Disk::notifyEvent
DiskNotify(d, w, code, val) ==
    [w EXCEPT !.out = Append(@, [code |-> code, id |-> d.mId, val |-> val])]

\* Disk::Disk: the object the constructor builds
NewDisk(eventPath, device, nickname, flags) ==
    [mDevice |-> device, mSize |-> -1, mNickname |-> nickname, mFlags |-> flags,
     mCreated |-> FALSE, mJustPartitioned |-> FALSE,
     mId |-> DiskId(device), mEventPath |-> eventPath,
     mSysPath |-> "/sys/" \o eventPath,
     mDevPath |-> NodePath(DiskId(device)),
     mSrdisk |-> StartsWith(nickname, "sr"),
     mLabel |-> "", mVolumes |-> <<>>]

\* a constructor that makes no device node
DiskCtor_withoutNode(w, eventPath, device, nickname, flags) ==
    [d |-> NewDisk(eventPath, device, nickname, flags), w |-> w, res |-> OK]

\* Disk::Disk: and the device node it creates
DiskCtor(w, eventPath, device, nickname, flags) ==
    [d |-> NewDisk(eventPath, device, nickname, flags),
     w |-> CreateDeviceNode(w, NodePath(DiskId(device)), device),
     res |-> OK]

\* Disk::~Disk
DiskDtor(x) == DestroyDeviceNode(x.w, x.d.mDevPath)

\* Disk::findVolume: the first volume of the list with this id, 0 when none
RECURSIVE FindFrom(_, _, _)
FindFrom(vols, id, i) ==
    IF i > Len(vols) THEN 0
    ELSE IF vols[i].mId = id THEN i
    ELSE FindFrom(vols, id, i + 1)

findVolume(d, id) == FindFrom(d.mVolumes, id, 1)

\* the loop of Disk::destroyAllVolumes
RECURSIVE DestroyFrom(_, _, _)
DestroyFrom(vols, w, i) ==
    IF i > Len(vols) THEN w
    ELSE DestroyFrom(vols, VolumeDestroy([v |-> vols[i], w |-> w]).w, i + 1)

\* a destroyAllVolumes that does not clear the list
destroyAllVolumes_withoutClear(x) ==
    [x EXCEPT !.w = DestroyFrom(x.d.mVolumes, x.w, 1)]

\* Disk::destroyAllVolumes
destroyAllVolumes(x) ==
    [x EXCEPT !.w = DestroyFrom(x.d.mVolumes, x.w, 1), !.d.mVolumes = <<>>]

\* a format pass that does not call setSilent(true)
SilentFormat_audible(d, s, fe) ==
    IF d.mJustPartitioned
    THEN [VolumeDestroy(VolumeFormat(VolumeCreate(s), "auto", fe))
             EXCEPT !.v.mSilent = FALSE]
    ELSE s

\* the silent format pass of a just-partitioned disk, shared by
\* createPublicVolume and handleJustPublicPhysicalDevice
SilentFormat(d, s, fe) ==
    IF d.mJustPartitioned
    THEN [VolumeDestroy(VolumeFormat(VolumeCreate([s EXCEPT !.v.mSilent = TRUE]),
                                     "auto", fe))
             EXCEPT !.v.mSilent = FALSE]
    ELSE s

\* mVolumes.push_back(vol), with the volume as create() left it
PushBack(x, c) == [x EXCEPT !.d.mVolumes = Append(@, c.v), !.w = c.w]

\* the tail of both: push_back, setDiskId, setSysPath, create
AddVolume(x, s) ==
    PushBack(x, VolumeCreate([s EXCEPT !.v.mDiskId = x.d.mId,
                                       !.v.mSysPath = x.d.mSysPath]))

\* Disk::createPublicVolume
createPublicVolume(x, device, fe) ==
    AddVolume(x, SilentFormat(x.d, [v |-> NewPublicVolume(device), w |-> x.w], fe))

\* Disk::handleJustPublicPhysicalDevice
handleJustPublicPhysicalDevice(x, physicalDevName, garbage, fe) ==
    AddVolume(x, SilentFormat(x.d,
                    [v |-> NewPhysicalVolume(physicalDevName, garbage.dev, garbage.sr),
                     w |-> x.w], fe))

\* Disk::destroy after destroyAllVolumes
DiskDestroyed(x) ==
    [d |-> [x.d EXCEPT !.mCreated = FALSE],
     w |-> DiskNotify(x.d, x.w, "DiskDestroyed", ""),
     res |-> OK]

\* a Disk::destroy that announces DiskDestroyed before it destroys the
\* children
DiskDestroy_announcesFirst(x) ==
    [d |-> destroyAllVolumes([d |-> [x.d EXCEPT !.mCreated = FALSE],
                              w |-> DiskNotify(x.d, x.w, "DiskDestroyed", "")]).d,
     w |-> destroyAllVolumes([d |-> [x.d EXCEPT !.mCreated = FALSE],
                              w |-> DiskNotify(x.d, x.w, "DiskDestroyed", "")]).w,
     res |-> OK]

\* Disk::destroy
DiskDestroy(x) == DiskDestroyed(destroyAllVolumes(x))

\* the loop of Disk::unmountAll
RECURSIVE UnmountFrom(_, _)
UnmountFrom(x, i) ==
    IF i > Len(x.d.mVolumes) THEN x
    ELSE UnmountFrom(
            [x EXCEPT !.d.mVolumes[i] = VolumeUnmount([v |-> x.d.mVolumes[i], w |-> x.w]).v,
                      !.w = VolumeUnmount([v |-> x.d.mVolumes[i], w |-> x.w]).w],
            i + 1)

\* a method's return: the disk, the world and the status
Returning(x, res) == [d |-> x.d, w |-> x.w, res |-> res]

\* Disk::unmountAll
unmountAll(x) == Returning(UnmountFrom(x, 1), OK)

\* Disk::isSrdiskMounted: the loop returns on its first element
isSrdiskMounted(d) ==
    IF ~d.mSrdisk THEN FALSE
    ELSE IF Len(d.mVolumes) > 0 THEN d.mVolumes[1].mSrMounted
    ELSE FALSE

-----------------------------------------------------------------------------
(* libc conversions used by the scanner                                    *)

CharAt(s, i) == SubSeq(s, i, i)

DigitVal(c) ==
    CASE c = "0" -> 0 [] c = "1" -> 1 [] c = "2" -> 2 [] c = "3" -> 3
      [] c = "4" -> 4 [] c = "5" -> 5 [] c = "6" -> 6 [] c = "7" -> 7
      [] c = "8" -> 8 [] c = "9" -> 9
      [] c \in {"a", "A"} -> 10 [] c \in {"b", "B"} -> 11
      [] c \in {"c", "C"} -> 12 [] c \in {"d", "D"} -> 13
      [] c \in {"e", "E"} -> 14 [] c \in {"f", "F"} -> 15
      [] OTHER -> 99

RECURSIVE ParseDigits(_, _, _, _)
ParseDigits(s, i, base, acc) ==
    IF i > Len(s) \/ DigitVal(CharAt(s, i)) >= base THEN acc
    ELSE ParseDigits(s, i + 1, base, acc * base + DigitVal(CharAt(s, i)))

\* strtol / strtoll / atoi: sign, optional 0x for base 16, digits up to the
\* first character that is no digit of the base
strtol(s, base) ==
    LET neg == Len(s) > 0 /\ CharAt(s, 1) = "-"
        i0 == IF neg THEN 2 ELSE 1
        hex == base = 16 /\ Len(s) >= i0 + 1 /\ SubSeq(s, i0, i0 + 1) \in {"0x", "0X"}
        i1 == IF hex THEN i0 + 2 ELSE i0
        n == ParseDigits(s, i1, base, 0)
    IN IF neg THEN -n ELSE n

atoi(s) == strtol(s, 10)

UpperChar(c) ==
    CASE c = "a" -> "A" [] c = "b" -> "B" [] c = "c" -> "C" [] c = "d" -> "D"
      [] c = "e" -> "E" [] c = "f" -> "F" [] c = "g" -> "G" [] c = "h" -> "H"
      [] c = "i" -> "I" [] c = "j" -> "J" [] c = "k" -> "K" [] c = "l" -> "L"
      [] c = "m" -> "M" [] c = "n" -> "N" [] c = "o" -> "O" [] c = "p" -> "P"
      [] c = "q" -> "Q" [] c = "r" -> "R" [] c = "s" -> "S" [] c = "t" -> "T"
      [] c = "u" -> "U" [] c = "v" -> "V" [] c = "w" -> "W" [] c = "x" -> "X"
      [] c = "y" -> "Y" [] c = "z" -> "Z" [] OTHER -> c

RECURSIVE SameFolded(_, _, _)
SameFolded(a, b, i) ==
    IF i > Len(a) THEN TRUE
    ELSE UpperChar(CharAt(a, i)) = UpperChar(CharAt(b, i)) /\ SameFolded(a, b, i + 1)

\* strcasecmp(a, b) == 0
EqualNoCase(a, b) == Len(a) = Len(b) /\ SameFolded(a, b, 1)

\* the conversion of int to int8_t
ToInt8(x) == ((x + 128) % 256) - 128

-----------------------------------------------------------------------------
(* Disk: metadata and the partition scan                                   *)

isVirtioBlkDevice(majorId, emulator) ==
    emulator /\ majorId >= 240 /\ majorId <= 254

ManfidLabel(manfid) ==
    CASE manfid = 3 -> "SanDisk"
      [] manfid = 27 -> "Samsung"
      [] manfid = 40 -> "Lexar"
      [] manfid = 116 -> "Transcend"
      [] OTHER -> ""

\* a readMetadata whose tail leaves out the size broadcast
MetadataSent_withoutSize(d, w) ==
    [d |-> d,
     w |-> DiskNotify(d,
             DiskNotify(d, w, "DiskLabelChanged", d.mLabel),
             "DiskSysPathChanged", d.mSysPath),
     res |-> OK]

\* the three broadcasts at the end of Disk::readMetadata
MetadataSent(d, w) ==
    [d |-> d,
     w |-> DiskNotify(d,
             DiskNotify(d,
               DiskNotify(d, w, "DiskSizeChanged", ToString(d.mSize)),
               "DiskLabelChanged", d.mLabel),
             "DiskSysPathChanged", d.mSysPath),
     res |-> OK]

\* Disk::readMetadata once mSize is read and mLabel cleared; env.vendor and
\* env.manfid are the sysfs files ([ok, text])
readMetadataLabel(d, w, env) ==
    IF major(d.mDevice) = kMajorBlockSr \/ major(d.mDevice) \in ScsiMajors
    THEN (IF ~env.vendor.ok THEN [d |-> d, w |-> w, res |-> -ENOENT]
          ELSE MetadataSent([d EXCEPT !.mLabel = env.vendor.text], w))
    ELSE IF major(d.mDevice) = kMajorBlockMmc
    THEN (IF ~env.manfid.ok THEN [d |-> d, w |-> w, res |-> -ENOENT]
          ELSE MetadataSent([d EXCEPT !.mLabel = ManfidLabel(strtol(env.manfid.text, 16))], w))
    ELSE IF isVirtioBlkDevice(major(d.mDevice), env.emulator)
    THEN MetadataSent([d EXCEPT !.mLabel = "Virtual"], w)
    ELSE [d |-> d, w |-> w, res |-> -ENOTSUP]

\* Disk::readMetadata; env.size is what the size ioctl leaves in mSize
DiskReadMetadata(x, env) ==
    readMetadataLabel([x.d EXCEPT !.mSize = env.size, !.mLabel = ""], x.w, env)

\* Disk::getMaxMinors; env.minors is the perdev_minors file ([ok, text])
getMaxMinors(d, env) ==
    IF major(d.mDevice) \in ScsiMajors THEN 31
    ELSE IF major(d.mDevice) = kMajorBlockMmc
    THEN (IF ~env.minors.ok THEN -ENOENT ELSE atoi(env.minors.text))
    ELSE IF isVirtioBlkDevice(major(d.mDevice), env.emulator) THEN 15
    ELSE -ENOTSUP

\* Disk::getPhysicalDev: env.lp is the separately enumerated device found for
\* the partition, <<>> when there is none
getPhysicalDev(device, part, env) ==
    IF part <= 15 THEN device
    ELSE IF env.lp # <<>> THEN env.lp
    ELSE device

\* the MBR type switch: every case creates the volume
MbrPartition(x, type, partDevice, env) ==
    IF strtol(type, 16) \in {6, 11, 12, 14, 7}
    THEN createPublicVolume(x, partDevice, env.fe)
    ELSE createPublicVolume(x, partDevice, env.fe)

\* a PART line with partition number i; x carries table, foundParts and
\* stop (the break out of the loop)
ScanPart(x, line, i, maxMinors, env) ==
    IF i <= 0 \/ i > maxMinors THEN x
    ELSE IF x.table = "kMbr"
    THEN (IF env.phys # ""
          THEN [handleJustPublicPhysicalDevice(x, env.phys, env.garbage, env.fe)
                   EXCEPT !.stop = TRUE]
          ELSE MbrPartition(x, line[3],
                  getPhysicalDev(makedev(major(x.d.mDevice), minor(x.d.mDevice) + i),
                                 i, env),
                  env))
    ELSE IF x.table = "kGpt"
    THEN (IF EqualNoCase(line[3], kGptBasicData)
          THEN createPublicVolume(x, makedev(major(x.d.mDevice), minor(x.d.mDevice) + i),
                                  env.fe)
          ELSE x)
    ELSE x

\* one line of the dumper's output; a line is the sequence of its tokens
ScanLine(x, line, maxMinors, env) ==
    IF Len(line) = 0 THEN x
    ELSE IF line[1] = "DISK"
    THEN (IF line[2] = "mbr" THEN [x EXCEPT !.table = "kMbr"]
          ELSE IF line[2] = "gpt" THEN [x EXCEPT !.table = "kGpt"]
          ELSE x)
    ELSE IF line[1] = "PART"
    THEN ScanPart([x EXCEPT !.foundParts = TRUE], line, strtol(line[2], 10),
                  maxMinors, env)
    ELSE x

\* the loop of readPartitions over the dumper's lines, from line i on
RECURSIVE ScanLines(_, _, _, _, _)
ScanLines(x, lines, i, maxMinors, env) ==
    IF i > Len(lines) \/ x.stop THEN x
    ELSE ScanLines(ScanLine(x, lines[i], maxMinors, env), lines, i + 1, maxMinors, env)

\* a whole-disk probe that is made whatever the scan found
WholeDisk_always(x, env) ==
    IF env.probe = OK
    THEN (IF env.phys # ""
          THEN handleJustPublicPhysicalDevice([x EXCEPT !.w = Call(@, "blkid")],
                                              env.phys, env.garbage, env.fe)
          ELSE createPublicVolume([x EXCEPT !.w = Call(@, "blkid")],
                                  x.d.mDevice, env.fe))
    ELSE [x EXCEPT !.w = Call(@, "blkid")]

\* the last-ditch whole-disk probe of readPartitions
WholeDisk(x, env) ==
    IF x.table = "kUnknown" \/ ~x.foundParts
    THEN (IF env.probe = OK
          THEN (IF env.phys # ""
                THEN handleJustPublicPhysicalDevice([x EXCEPT !.w = Call(@, "blkid")],
                                                    env.phys, env.garbage, env.fe)
                ELSE createPublicVolume([x EXCEPT !.w = Call(@, "blkid")],
                                        x.d.mDevice, env.fe))
          ELSE [x EXCEPT !.w = Call(@, "blkid")])
    ELSE x

\* the end of readPartitions: DiskScanned, mJustPartitioned cleared
DiskScanned(x, res) ==
    [d |-> [x.d EXCEPT !.mJustPartitioned = FALSE],
     w |-> DiskNotify(x.d, x.w, "DiskScanned", ""),
     res |-> res]

\* readPartitions from the dumper's run on; env.sgdisk is its [res, output]
readPartitionsDump(x, maxMinors, env) ==
    IF env.sgdisk.res # OK
    THEN DiskScanned([x EXCEPT !.w = Call(@, "sgdisk")], env.sgdisk.res)
    ELSE DiskScanned(
            WholeDisk(
               ScanLines([d |-> x.d, w |-> Call(x.w, "sgdisk"), table |-> "kUnknown",
                          foundParts |-> FALSE, stop |-> FALSE],
                         env.sgdisk.output, 1, maxMinors, env),
               env),
            OK)

\* Disk::readPartitions
readPartitions(x, env) ==
    IF x.d.mSrdisk
    THEN Returning(createPublicVolume(x, x.d.mDevice, env.fe), OK)
    ELSE IF ToInt8(getMaxMinors(x.d, env)) < 0 THEN Returning(x, -ENOTSUP)
    ELSE readPartitionsDump(destroyAllVolumes(x), ToInt8(getMaxMinors(x.d, env)), env)

\* a create that reads metadata and partitions of an optical disk too
DiskCreateScan_scansOptical(x, env) ==
    Returning(readPartitions(DiskReadMetadata(x, env), env), OK)

\* Disk::create after the DiskCreated broadcast
DiskCreateScan(x, env) ==
    IF ~x.d.mSrdisk
    THEN Returning(readPartitions(DiskReadMetadata(x, env), env), OK)
    ELSE Returning(x, OK)

\* Disk::create
DiskCreate(x, env) ==
    DiskCreateScan([d |-> [x.d EXCEPT !.mCreated = TRUE],
                    w |-> DiskNotify(x.d, x.w, "DiskCreated", ToString(x.d.mFlags))],
                   env)

-----------------------------------------------------------------------------
(* The environment: block devices that can appear, and what the helper     *)
(* programs and the kernel can answer                                      *)

SdaSource == [dev |-> <<8, 16>>, eventPath |-> "block/sda", nickname |-> "udisk", flags |-> 0]
Sr0Source == [dev |-> <<11, 0>>, eventPath |-> "block/sr0", nickname |-> "sr0", flags |-> 0]
MmcSource == [dev |-> <<179, 0>>, eventPath |-> "block/mmcblk0", nickname |-> "sdcard", flags |-> 2]
VdaSource == [dev |-> <<253, 0>>, eventPath |-> "block/vda", nickname |-> "virt", flags |-> 0]

kGptAndroidMeta == "19A710A2-B3CA-11E4-B026-10604B889DCF"

\* outputs of the partition dumper, a sequence of token sequences each
MbrOne == << <<"DISK", "mbr">>, <<"PART", "1", "0c">> >>
MbrTwo == << <<"DISK", "mbr">>, <<"PART", "1", "0c">>, <<"PART", "2", "83">> >>
GptTwo == << <<"DISK", "gpt">>,
             <<"PART", "1", "ebd0a0a2-b9e5-4433-87c0-68b6b72699c7", "A1">>,
             <<"PART", "2", kGptAndroidMeta, "A2">> >>
MbrNone == << <<"DISK", "mbr">> >>
NoTable == << <<>>, <<"PART", "1", "0c">> >>
MbrEdges == << <<"DISK", "mbr">>, <<"PART", "0", "0c">>, <<"PART", "32", "0c">>,
               <<"PART", "17", "07">> >>
GptEdges == << <<"DISK", "gpt">>,
               <<"PART", "17", "EBD0A0A2-B9E5-4433-87C0-68B6B72699C7", "B1">> >>

NoFile == [ok |-> FALSE, text |-> ""]
File(text) == [ok |-> TRUE, text |-> text]

FormatEnvs == {[wipe |-> OK, format |-> 0], [wipe |-> -EIO, format |-> 0],
               [wipe |-> OK, format |-> EIO]}
FormatOk == [wipe |-> OK, format |-> 0]

Garbage == {[dev |-> <<0, 0>>, sr |-> FALSE], [dev |-> <<11, 0>>, sr |-> TRUE]}

Dumped(output) == [res |-> OK, output |-> output]
DumpFailed == [res |-> -EIO, output |-> <<>>]

\* filesystem probes: what ReadMetadataUntrusted can return for a volume
VfatProbe == [res |-> OK, fsType |-> "vfat", uuid |-> "U1", label |-> "STICK"]
NtfsProbe == [res |-> OK, fsType |-> "ntfs", uuid |-> "", label |-> ""]
Ext4Probe == [res |-> OK, fsType |-> "ext4", uuid |-> "U1", label |-> ""]
IsoProbe == [res |-> OK, fsType |-> "iso9660", uuid |-> "", label |-> "CD"]
NoProbe == [res |-> -EIO, fsType |-> "", uuid |-> "", label |-> ""]

Probes(src) ==
    IF major(src.dev) = kMajorBlockSr THEN {IsoProbe, Ext4Probe, NoProbe}
    ELSE {VfatProbe, Ext4Probe, NoProbe}

\* results of the helpers of one mount
AllMountEnvs ==
    [check : {0, 1}, prep1 : {OK, ENOTCONN, EACCES}, um : {OK, EBUSY},
     prep2 : {OK, EACCES}, lpd : {OK, ENOENT}, mnt : {0, -1}, chown : {OK, 1}]

MountOk == [check |-> 0, prep1 |-> OK, um |-> OK, prep2 |-> OK, lpd |-> OK,
            mnt |-> 0, chown |-> OK]

\* a helper that is not reached has no result: keep one representative
Reached(e) ==
    /\ e.check # 0 => e.prep1 = OK
    /\ e.prep1 # ENOTCONN => e.um = OK /\ e.prep2 = OK
    /\ e.um = EBUSY => e.prep2 = OK
    /\ (e.check # 0 \/ e.prep1 = EACCES \/ e.um = EBUSY \/ e.prep2 # OK) => e.lpd = OK
    /\ (e.check # 0 \/ e.prep1 = EACCES \/ e.um = EBUSY \/ e.prep2 # OK \/ e.lpd # OK)
          => e.mnt = 0
    /\ (e.check # 0 \/ e.prep1 = EACCES \/ e.um = EBUSY \/ e.prep2 # OK \/ e.lpd # OK
          \/ e.mnt # 0) => e.chown = OK

MountEnvs == {e \in AllMountEnvs : Reached(e)}

\* what readMetadata of a disk can meet
MetaEnvs(src) ==
    IF major(src.dev) = kMajorBlockMmc
    THEN {[size |-> 1024, vendor |-> NoFile, manfid |-> m, emulator |-> FALSE] :
             m \in {NoFile, File("0x000003"), File("0x00abcd")}}
    ELSE IF major(src.dev) \in ScsiMajors \cup {kMajorBlockSr}
    THEN {[size |-> 1024, vendor |-> File("Generic"), manfid |-> NoFile, emulator |-> FALSE],
          [size |-> -1, vendor |-> NoFile, manfid |-> NoFile, emulator |-> FALSE]}
    ELSE {[size |-> 1024, vendor |-> NoFile, manfid |-> NoFile, emulator |-> em] :
             em \in BOOLEAN}

\* the perdev_minors file, read for the MMC major only
MinorsFiles(src) ==
    IF major(src.dev) = kMajorBlockMmc
    THEN {NoFile, File("8"), File("200"), File("256")}
    ELSE {NoFile}

\* what readPartitions can meet: dumper result, physical-only name, the
\* separately enumerated device of a partition above 15, whole-disk probe
PartEnvs(src, outputs, justPartitioned) ==
    LET name == SubSeq(src.eventPath, 7, Len(src.eventPath))
        fes == IF justPartitioned THEN FormatEnvs ELSE {FormatOk}
        g0 == [dev |-> <<0, 0>>, sr |-> FALSE]
        rec(mi, sg, ph, lp, pr, fe, g) ==
            [minors |-> mi, sgdisk |-> sg, phys |-> ph, lp |-> lp, probe |-> pr,
             fe |-> fe, garbage |-> g]
        needsProbe(o) == o \in {MbrNone, NoTable}
    IN {rec(mi, DumpFailed, "", <<>>, OK, FormatOk, g0) : mi \in MinorsFiles(src)}
       \cup UNION {{rec(mi, Dumped(o), "", lp, pr, fe, g0) :
                       mi \in MinorsFiles(src),
                       lp \in {<<>>} \cup (IF o \in {MbrEdges, GptEdges} THEN {<<259, 3>>} ELSE {}),
                       pr \in {OK} \cup (IF needsProbe(o) THEN {-EIO} ELSE {}),
                       fe \in fes} : o \in outputs}
       \cup {rec(mi, Dumped(o), name, <<>>, OK, fe, g) :
                mi \in MinorsFiles(src), o \in outputs,
                fe \in fes, g \in Garbage}

NoMeta == [size |-> -1, vendor |-> NoFile, manfid |-> NoFile, emulator |-> FALSE]

-----------------------------------------------------------------------------
(* Handlers.  Each takes the program state to the state after the whole    *)
(* handler; locking and the broadcast history are added by the             *)
(* specifications below.                                                   *)

World == [mounts |-> mounts, dirs |-> dirs, nodes |-> nodes, out |-> <<>>,
          calls |-> <<>>, loop |-> mLoop]

Commit(w) ==
    /\ mounts' = w.mounts
    /\ dirs' = w.dirs
    /\ nodes' = w.nodes
    /\ out' = w.out
    /\ calls' = w.calls
    /\ mLoop' = w.loop

\* what the last handler was and answered; was is filled by a mount only:
\* the filesystem attributes the volume had when the command arrived
Returned(by, op, id, res, code) ==
    [by |-> by, op |-> op, id |-> id, res |-> res, code |-> code, was |-> <<>>]

Attributes(v) == <<v.mFsType, v.mFsUuid, v.mFsLabel>>

Without(f, x) == [y \in DOMAIN f \ {x} |-> f[y]]

\* VolumeManager::handleBlockEvent, add: a new Disk for a device that matches
\* a DiskSource, then Disk::create
BlockAdd(src, env) ==
    /\ ~mShutdown
    /\ src.dev \notin DOMAIN mDisks
    /\ \E r \in {DiskCreate(DiskCtor(World, src.eventPath, src.dev, src.nickname,
                                     src.flags), env)} :
          /\ mDisks' = (src.dev :> r.d) @@ mDisks
          /\ Commit(r.w)
          /\ ret' = Returned("uevent", "create", r.d.mId, r.res, "")
    /\ UNCHANGED mShutdown

\* a rescan of a created disk: Disk::readPartitions
ReadPartitions(dev, env) ==
    /\ ~mShutdown
    /\ dev \in DOMAIN mDisks
    /\ mDisks[dev].mCreated
    /\ mDisks[dev].mSrdisk => Len(mDisks[dev].mVolumes) < MaxVolumes
    /\ \E r \in {readPartitions([d |-> mDisks[dev], w |-> World], env)} :
          /\ mDisks' = [mDisks EXCEPT ![dev] = r.d]
          /\ Commit(r.w)
          /\ ret' = Returned("uevent", "readPartitions", r.d.mId, r.res, "")
    /\ UNCHANGED mShutdown

\* the just-partitioned signal: the next scan formats what it creates
JustPartitioned(dev) ==
    /\ ~mShutdown
    /\ dev \in DOMAIN mDisks
    /\ mDisks[dev].mCreated
    /\ ~mDisks[dev].mJustPartitioned
    /\ mDisks' = [mDisks EXCEPT ![dev].mJustPartitioned = TRUE]
    /\ Commit(World)
    /\ ret' = Returned("uevent", "partitioned", mDisks[dev].mId, OK, "")
    /\ UNCHANGED mShutdown

\* VolumeManager::handleBlockEvent, remove: Disk::destroy, then the Disk
\* object goes away
BlockRemove(dev) ==
    /\ ~mShutdown
    /\ dev \in DOMAIN mDisks
    /\ \E r \in {DiskDestroy([d |-> mDisks[dev], w |-> World])} :
          /\ mDisks' = Without(mDisks, dev)
          /\ Commit(DiskDtor(r))
          /\ ret' = Returned("uevent", "destroy", r.d.mId, r.res, "")
    /\ UNCHANGED mShutdown

-----------------------------------------------------------------------------
(* VolumeManager calls made by the commands (not among the sources)        *)

\* the registry in its order: the disk to visit first
FirstDisk(disks) == CHOOSE x \in DOMAIN disks : \A y \in DOMAIN disks : major(x) <= major(y)

\* VolumeManager::findVolume: the disk and list position of the volume, or
\* idx = 0
VmFindVolume(disks, id) ==
    IF \A dev \in DOMAIN disks : findVolume(disks[dev], id) = 0
    THEN [dev |-> <<>>, idx |-> 0]
    ELSE [dev |-> FirstDisk([dev \in {x \in DOMAIN disks : findVolume(disks[x], id) > 0}
                                |-> disks[dev]]),
          idx |-> findVolume(
                     disks[FirstDisk([dev \in {x \in DOMAIN disks :
                                                  findVolume(disks[x], id) > 0}
                                         |-> disks[dev]])], id)]

\* VolumeManager::reset: destroys every disk and clears the registry
RECURSIVE VmResetFrom(_, _)
VmResetFrom(disks, w) ==
    IF DOMAIN disks = {} THEN w
    ELSE VmResetFrom(Without(disks, FirstDisk(disks)),
                     DiskDtor(DiskDestroy([d |-> disks[FirstDisk(disks)], w |-> w])))

VmReset(disks, w) == [disks |-> <<>>, w |-> VmResetFrom(disks, w), res |-> OK]

\* VolumeManager::mkdirs: only below the path of a mounted volume
VmMkdirs(disks, path) ==
    IF \E dev \in DOMAIN disks : \E i \in 1..Len(disks[dev].mVolumes) :
          /\ disks[dev].mVolumes[i].mState = "MOUNTED"
          /\ disks[dev].mVolumes[i].mPath # ""
          /\ StartsWith(path, disks[dev].mVolumes[i].mPath \o "/")
    THEN OK ELSE -EINVAL

\* VolumeManager::mountloop: one loop at most
VmMountLoop(w, path) ==
    IF w.loop # "" THEN [w |-> w, res |-> -EBUSY]
    ELSE [w |-> [Call(w, "losetup") EXCEPT !.loop = path], res |-> OK]

\* VolumeManager::unmountloop
VmUnmountLoop(w, force) ==
    IF w.loop = "" THEN [w |-> w, res |-> -EINVAL]
    ELSE [w |-> [Call(w, "unmountloop") EXCEPT !.loop = ""], res |-> OK]

-----------------------------------------------------------------------------
(* CommandListener                                                         *)

\* CommandListener::sendGenericOkFail
sendGenericOkFail(cond) == IF cond = 0 THEN "CommandOkay" ELSE "OperationFailed"

\* argv[k] of the C code; argv[0] is the first token
Arg(argv, k) == argv[k + 1]

\* what a command leaves: the registry, the world, the flag and the answer
Answer(disks, w, shutdown, op, id, res, code) ==
    [disks |-> disks, w |-> w, shutdown |-> shutdown,
     ret |-> Returned("volume", op, id, res, code)]

\* return sendGenericOkFail(cli, r.res) for r = [disks, w, res]
Replied(r, shutdown, op, id) ==
    Answer(r.disks, r.w, shutdown, op, id, r.res, sendGenericOkFail(r.res))

\* the volume found at f as the call r = [v, w, res] on it left it
Stored(disks, f, r) ==
    [disks |-> [disks EXCEPT ![f.dev].mVolumes[f.idx] = r.v], w |-> r.w, res |-> r.res]

\* the optional integer argument k of a command
IntArg(argv, k, default) == IF Len(argv) > k THEN atoi(Arg(argv, k)) ELSE default

\* volume mount, unmount and format once findVolume returned f
VolumeCmdOn(disks, w, shutdown, argv, f, probe, e, fe) ==
    IF f.idx = 0
    THEN Answer(disks, w, shutdown, Arg(argv, 1), Arg(argv, 2), 0, "CommandSyntaxError")
    ELSE IF Arg(argv, 1) = "mount"
    THEN [Replied(Stored(disks, f,
                    VolumeMount([v |-> [disks[f.dev].mVolumes[f.idx] EXCEPT
                                           !.mMountFlags = IntArg(argv, 3, 0),
                                           !.mMountUserId = IntArg(argv, 4, -1)],
                                 w |-> w], probe, e)),
                  shutdown, "mount", Arg(argv, 2))
             EXCEPT !.ret.was = Attributes(disks[f.dev].mVolumes[f.idx])]
    ELSE IF Arg(argv, 1) = "unmount"
    THEN Replied(Stored(disks, f,
                   VolumeUnmount([v |-> disks[f.dev].mVolumes[f.idx], w |-> w])),
                 shutdown, "unmount", Arg(argv, 2))
    ELSE Replied(Stored(disks, f,
                   VolumeFormat([v |-> disks[f.dev].mVolumes[f.idx], w |-> w],
                                Arg(argv, 3), fe)),
                 shutdown, "format", Arg(argv, 2))

\* a runCommand whose last return answers success instead of the syntax error
VolumeCmdRun_okOnUnknown(disks, w, shutdown, argv, probe, e, fe) ==
    IF Len(argv) < 2
    THEN Answer(disks, w, shutdown, "", "", 0, "CommandSyntaxError")
    ELSE IF Arg(argv, 1) = "reset"
    THEN Replied(VmReset(disks, w), shutdown, "reset", "")
    ELSE IF Arg(argv, 1) = "shutdown"
    THEN Replied(VmReset(disks, w), TRUE, "shutdown", "")
    ELSE IF Arg(argv, 1) = "debug"
    THEN Answer(disks, w, shutdown, "debug", "", 0, sendGenericOkFail(0))
    ELSE IF Arg(argv, 1) = "mkdirs" /\ Len(argv) > 2
    THEN Replied([disks |-> disks, w |-> w, res |-> VmMkdirs(disks, Arg(argv, 2))],
                 shutdown, "mkdirs", Arg(argv, 2))
    ELSE IF (Arg(argv, 1) \in {"mount", "unmount"} /\ Len(argv) > 2)
            \/ (Arg(argv, 1) = "format" /\ Len(argv) > 3)
    THEN VolumeCmdOn(disks, w, shutdown, argv, VmFindVolume(disks, Arg(argv, 2)),
                     probe, e, fe)
    ELSE Answer(disks, w, shutdown, Arg(argv, 1), "", 0, sendGenericOkFail(0))

\* CommandListener::VolumeCmd::runCommand
VolumeCmdRun(disks, w, shutdown, argv, probe, e, fe) ==
    IF Len(argv) < 2
    THEN Answer(disks, w, shutdown, "", "", 0, "CommandSyntaxError")
    ELSE IF Arg(argv, 1) = "reset"
    THEN Replied(VmReset(disks, w), shutdown, "reset", "")
    ELSE IF Arg(argv, 1) = "shutdown"
    THEN Replied(VmReset(disks, w), TRUE, "shutdown", "")
    ELSE IF Arg(argv, 1) = "debug"
    THEN Answer(disks, w, shutdown, "debug", "", 0, sendGenericOkFail(0))
    ELSE IF Arg(argv, 1) = "mkdirs" /\ Len(argv) > 2
    THEN Replied([disks |-> disks, w |-> w, res |-> VmMkdirs(disks, Arg(argv, 2))],
                 shutdown, "mkdirs", Arg(argv, 2))
    ELSE IF (Arg(argv, 1) \in {"mount", "unmount"} /\ Len(argv) > 2)
            \/ (Arg(argv, 1) = "format" /\ Len(argv) > 3)
    THEN VolumeCmdOn(disks, w, shutdown, argv, VmFindVolume(disks, Arg(argv, 2)),
                     probe, e, fe)
    ELSE Answer(disks, w, shutdown, Arg(argv, 1), "", 0, "CommandSyntaxError")

\* one volume command, from the request to the answer
VolumeCmd(argv, probe, e, fe) ==
    \E r \in {VolumeCmdRun(mDisks, World, mShutdown, argv, probe, e, fe)} :
       /\ mDisks' = r.disks
       /\ Commit(r.w)
       /\ mShutdown' = r.shutdown
       /\ ret' = r.ret

\* the answer of a loop command to r = [w, res]
LoopReplied(op, r) ==
    [w |-> r.w,
     ret |-> Returned("loop", op, "", r.res,
                      IF r.res = 0 THEN "CommandOkay" ELSE "ErrnoCode")]

\* CommandListener::LoopCmd::runCommand
LoopCmdRun(w, argv) ==
    IF Len(argv) < 2
    THEN [w |-> w, ret |-> Returned("loop", "", "", 0, "CommandSyntaxError")]
    ELSE IF Arg(argv, 1) = "mount"
    THEN (IF Len(argv) # 3
          THEN [w |-> w, ret |-> Returned("loop", "", "", 0, "CommandSyntaxError")]
          ELSE LoopReplied("mount", VmMountLoop(w, Arg(argv, 2))))
    ELSE IF Arg(argv, 1) = "unmount"
    THEN (IF Len(argv) < 2 \/ Len(argv) > 3
          THEN [w |-> w, ret |-> Returned("loop", "", "", 0, "CommandSyntaxError")]
          ELSE LoopReplied("unmount",
                           VmUnmountLoop(w, Len(argv) = 3 /\ Arg(argv, 2) = "force")))
    ELSE [w |-> w, ret |-> Returned("loop", "", "", 0, "CommandSyntaxError")]

LoopCmd(argv) ==
    \E r \in {LoopCmdRun(World, argv)} :
       /\ Commit(r.w)
       /\ ret' = r.ret
       /\ UNCHANGED <<mDisks, mShutdown>>

-----------------------------------------------------------------------------
(* Requests                                                                *)

VolumeIds(disks) ==
    UNION {{disks[dev].mVolumes[i].mId : i \in 1..Len(disks[dev].mVolumes)} :
              dev \in DOMAIN disks}

OtherRequests ==
    {<<"volume", "reset">>, <<"volume", "shutdown">>,
     <<"volume", "debug">>, <<"volume", "mkdirs">>,
     <<"volume", "mkdirs", "/mnt/media_rw/U1/Android">>, <<"volume", "eject">>,
     <<"volume", "mount">>, <<"volume", "mount", "nosuch">>,
     <<"volume", "unmount", "nosuch">>, <<"volume", "format", "nosuch", "auto">>}

LoopRequests ==
    {<<"loop">>, <<"loop", "mount">>, <<"loop", "mount", "/mnt/media_rw/U1/a.iso">>,
     <<"loop", "unmount">>, <<"loop", "unmount", "force">>, <<"loop", "attach">>}

SourceOf(dev) == CHOOSE src \in {SdaSource, Sr0Source, MmcSource, VdaSource} : src.dev = dev

Init ==
    /\ mDisks = <<>>
    /\ mounts = EmptyBag
    /\ dirs = {}
    /\ nodes = {}
    /\ out = <<>>
    /\ ret = Returned("", "", "", 0, "")
    /\ log = <<>>
    /\ calls = <<>>
    /\ mLock = ""
    /\ pc = [t \in {"uevent", "volume"} |-> "idle"]
    /\ mLoop = ""
    /\ mShutdown = FALSE
    /\ given = <<>>

\* block-add uevent for one of the sources
Add(sources, outputs) ==
    \E src \in sources : \E m \in MetaEnvs(src) :
        \E p \in PartEnvs(src, outputs, FALSE) : BlockAdd(src, m @@ p)

\* a rescan of a present disk
Rescan(outputs) ==
    \E dev \in DOMAIN mDisks :
        \E p \in PartEnvs(SourceOf(dev), outputs, mDisks[dev].mJustPartitioned) :
            ReadPartitions(dev, NoMeta @@ p)

Partitioned == \E dev \in DOMAIN mDisks : JustPartitioned(dev)

\* block-remove uevent
Remove == \E dev \in DOMAIN mDisks : BlockRemove(dev)

\* the probes and helper results a mount of this volume can meet; a helper
\* that the mount does not run has no result
MountInputs(src, vol) ==
    IF vol.mState # "UNMOUNTED" THEN {[probe |-> NoProbe, e |-> MountOk]}
    ELSE UNION {
        IF ~SupportedFs(probe.fsType) \/ (~vol.mJustPhysicalDev /\ probe.fsType = "vfat")
        THEN {[probe |-> probe, e |-> MountOk]}
        ELSE {[probe |-> probe, e |-> e] : e \in {x \in MountEnvs :
                  /\ IsExt(probe.fsType) => x.check = 0
                  /\ (vol.mJustPhysicalDev \/ probe.fsType \notin {"ntfs", "exfat"})
                        => x.lpd = OK
                  /\ ~IsExt(probe.fsType) => x.chown = OK}}
        : probe \in Probes(src)}

\* volume mount <id> <flags> <user>
Mount ==
    \E dev \in DOMAIN mDisks : \E i \in 1..Len(mDisks[dev].mVolumes) :
        \E in \in MountInputs(SourceOf(dev), mDisks[dev].mVolumes[i]) :
            VolumeCmd(<<"volume", "mount", mDisks[dev].mVolumes[i].mId, "2", "10">>,
                      in.probe, in.e, FormatOk)

\* volume unmount <id>
Unmount ==
    \E id \in VolumeIds(mDisks) :
        VolumeCmd(<<"volume", "unmount", id>>, NoProbe, MountOk, FormatOk)

\* volume format <id> <fsType>
Format ==
    \E id \in VolumeIds(mDisks) : \E fs \in {"auto", "ext4"} : \E fe \in FormatEnvs :
        VolumeCmd(<<"volume", "format", id, fs>>, NoProbe, MountOk, fe)

\* the other volume commands, and the malformed ones
Other == \E argv \in OtherRequests : VolumeCmd(argv, NoProbe, MountOk, FormatOk)

\* loop commands
Loop == \E argv \in LoopRequests : LoopCmd(argv)

-----------------------------------------------------------------------------
(* Spec: the daemon after startup with a USB disk; handlers run one at a   *)
(* time                                                                    *)

UsbSources == {SdaSource}
UsbOutputs == {MbrOne, MbrTwo, MbrNone}

Quiet == UNCHANGED <<log, mLock, pc, given>>

Next ==
    \/ Add(UsbSources, UsbOutputs) /\ Quiet
    \/ Rescan(UsbOutputs) /\ Quiet
    \/ Remove /\ Quiet
    \/ Mount /\ Quiet
    \/ Unmount /\ Quiet
    \/ Format /\ Quiet

Spec == Init /\ [][Next]_vars

-----------------------------------------------------------------------------
(* SpecScan: a USB disk and an optical drive through create, rescan, the   *)
(* just-partitioned signal and removal, with the broadcast history kept    *)

ScanSources == {SdaSource, Sr0Source}
ScanOutputs == {MbrOne, MbrTwo, NoTable}

Room == Cardinality(DOMAIN mDisks) < MaxDisks

Logged ==
    /\ Len(log) + Len(out') <= MaxLog
    /\ log' = log \o out'
    /\ UNCHANGED <<mLock, pc, given>>

NextScan ==
    \/ Room /\ Add(ScanSources, ScanOutputs) /\ Logged
    \/ Rescan(ScanOutputs) /\ Logged
    \/ Partitioned /\ Logged
    \/ Remove /\ Logged

SpecScan == Init /\ [][NextScan]_vars

-----------------------------------------------------------------------------
(* SpecInputs: the scanner as a function of what the environment answers,  *)
(* for every kind of disk, one disk at a time; each scan leaves its inputs *)
(* in given                                                                *)

AllSources == {SdaSource, Sr0Source, MmcSource, VdaSource}
AllOutputs == {MbrOne, MbrTwo, GptTwo, MbrNone, NoTable, MbrEdges, GptEdges}

Unplugged == mDisks = <<>>

AddGiven ==
    \E src \in AllSources : \E m \in MetaEnvs(src) :
        \E p \in PartEnvs(src, AllOutputs, FALSE) :
            BlockAdd(src, m @@ p) /\ given' = m @@ p

RescanGiven ==
    \E dev \in DOMAIN mDisks :
        \E p \in PartEnvs(SourceOf(dev), AllOutputs, mDisks[dev].mJustPartitioned) :
            ReadPartitions(dev, NoMeta @@ p) /\ given' = NoMeta @@ p

Forgotten == given' = <<>> /\ UNCHANGED <<log, mLock, pc>>

NextInputs ==
    \/ Unplugged /\ AddGiven /\ UNCHANGED <<log, mLock, pc>>
    \/ RescanGiven /\ UNCHANGED <<log, mLock, pc>>
    \/ Partitioned /\ Forgotten
    \/ Remove /\ Forgotten

SpecInputs == Init /\ [][NextInputs]_vars

-----------------------------------------------------------------------------
(* SpecLock: the uevent thread and the command threads with the manager    *)
(* lock.  A handler that takes the lock is two steps: the acquisition, and *)
(* the body up to the release on return.                                   *)

LockSources == {SdaSource}
LockOutputs == {MbrOne}

\* std::lock_guard lock(vm->getLock()), and the uevent thread's locking
Acquire(t) ==
    /\ pc[t] = "idle"
    /\ mLock = ""
    /\ mLock' = t
    /\ pc' = [pc EXCEPT ![t] = "locked"]
    /\ UNCHANGED <<mDisks, mounts, dirs, nodes, out, ret, log, calls, mLoop, mShutdown,
                   given>>

\* the body of a handler of thread t, and the release when it returns
Locked(t) ==
    /\ pc[t] = "locked"
    /\ mLock' = ""
    /\ pc' = [pc EXCEPT ![t] = "idle"]
    /\ UNCHANGED <<log, given>>

\* VolumeCmd::runCommand answers a request without a verb before it locks
NoVerb ==
    /\ pc["volume"] = "idle"
    /\ VolumeCmd(<<"volume">>, NoProbe, MountOk, FormatOk)
    /\ Quiet

NextLock ==
    \/ \E t \in {"uevent", "volume"} : Acquire(t)
    \/ Add(LockSources, LockOutputs) /\ Locked("uevent")
    \/ Remove /\ Locked("uevent")
    \/ Mount /\ Locked("volume")
    \/ Unmount /\ Locked("volume")
    \/ Format /\ Locked("volume")
    \/ Other /\ Locked("volume")
    \/ NoVerb
    \/ Loop /\ Quiet

SpecLock == Init /\ [][NextLock]_vars

-----------------------------------------------------------------------------
(* SpecFs: one USB disk whose volumes are mounted with every filesystem    *)
(* type the probe can report                                               *)

FsTypes == {"vfat", "ntfs", "exfat", "ext2", "ext3", "ext4", "hfs", "iso9660", "udf",
            "ext4dev", "f2fs", ""}

\* the helpers all succeed, or the mount helper fails
FsEnvs == {MountOk, [MountOk EXCEPT !.mnt = -1]}

FsProbes == {[res |-> OK, fsType |-> f, uuid |-> "U1", label |-> ""] : f \in FsTypes}
               \cup {NoProbe}

FsOutputs == {MbrOne, MbrNone}

\* volume mount <id> with any probe result
MountAny ==
    \E id \in VolumeIds(mDisks) : \E probe \in FsProbes : \E e \in FsEnvs :
        VolumeCmd(<<"volume", "mount", id, "2", "10">>, probe, e, FormatOk)

NextFs ==
    \/ Add(UsbSources, FsOutputs) /\ Quiet
    \/ Remove /\ Quiet
    \/ MountAny /\ Quiet
    \/ Unmount /\ Quiet

SpecFs == Init /\ [][NextFs]_vars

-----------------------------------------------------------------------------
(* SpecFormat: one USB disk whose volumes are formatted with every         *)
(* filesystem argument; each format leaves its inputs in given             *)

FormatArgs == {"vfat", "auto", "ext4", "ntfs", ""}

\* volume format <id> <fsType>, with what was asked and what the helpers
\* returned kept in given
FormatGiven ==
    \E id \in VolumeIds(mDisks) : \E fs \in FormatArgs : \E fe \in FormatEnvs :
        /\ VolumeCmd(<<"volume", "format", id, fs>>, NoProbe, MountOk, fe)
        /\ given' = [fsType |-> fs, fe |-> fe]

NextFormat ==
    \/ Add(UsbSources, FsOutputs) /\ Quiet
    \/ Remove /\ Quiet
    \/ Mount /\ Quiet
    \/ Unmount /\ Quiet
    \/ FormatGiven /\ UNCHANGED <<log, mLock, pc>>

SpecFormat == Init /\ [][NextFormat]_vars

-----------------------------------------------------------------------------
(* SpecRetry: one USB disk whose volumes are mounted again after a mount   *)
(* that failed; each mount leaves its inputs in given                      *)

RetryProbes == {Ext4Probe, NtfsProbe, NoProbe}

\* all helpers succeed, or one of check, fs_prepare_dir, mount, chown fails
RetryEnvs ==
    {MountOk, [MountOk EXCEPT !.check = 1], [MountOk EXCEPT !.prep1 = EACCES],
     [MountOk EXCEPT !.mnt = -1], [MountOk EXCEPT !.chown = 1]}

\* volume mount <id> <flags> <user>, with what blkid and the helpers returned
\* kept in given
MountGiven ==
    \E id \in VolumeIds(mDisks) : \E probe \in RetryProbes : \E e \in RetryEnvs :
        /\ VolumeCmd(<<"volume", "mount", id, "2", "10">>, probe, e, FormatOk)
        /\ given' = [probe |-> probe, e |-> e]

NextRetry ==
    \/ Add(UsbSources, FsOutputs) /\ Quiet
    \/ Remove /\ Quiet
    \/ Unmount /\ Quiet
    \/ MountGiven /\ UNCHANGED <<log, mLock, pc>>

SpecRetry == Init /\ [][NextRetry]_vars

-----------------------------------------------------------------------------
(* SpecLife: the life of a Disk object method by method.  A block-add      *)
(* constructs the object and then calls create(); a block-remove calls     *)
(* destroy() and then drops the object; the handler finishes both calls    *)
(* before anything else runs                                               *)

\* no handler is between its two calls
Settled == \A dev \in DOMAIN mDisks : mDisks[dev].mCreated

\* new Disk(eventPath, device, nickname, flags)
Construct(sources) ==
    \E src \in sources :
        /\ ~mShutdown /\ Settled
        /\ src.dev \notin DOMAIN mDisks
        /\ \E r \in {DiskCtor(World, src.eventPath, src.dev, src.nickname, src.flags)} :
              /\ mDisks' = (src.dev :> r.d) @@ mDisks
              /\ Commit(r.w)
              /\ ret' = Returned("uevent", "new", r.d.mId, r.res, "")
        /\ UNCHANGED mShutdown

\* disk->create() on the object just constructed
Create(outputs) ==
    \E dev \in DOMAIN mDisks : \E m \in MetaEnvs(SourceOf(dev)) :
        \E p \in PartEnvs(SourceOf(dev), outputs, FALSE) :
            /\ ret.op = "new" /\ ~mDisks[dev].mCreated
            /\ \E r \in {DiskCreate([d |-> mDisks[dev], w |-> World], m @@ p)} :
                  /\ mDisks' = [mDisks EXCEPT ![dev] = r.d]
                  /\ Commit(r.w)
                  /\ ret' = Returned("uevent", "create", r.d.mId, r.res, "")
            /\ UNCHANGED mShutdown

\* disk->destroy()
Destroy ==
    \E dev \in DOMAIN mDisks :
        /\ ~mShutdown /\ Settled
        /\ \E r \in {DiskDestroy([d |-> mDisks[dev], w |-> World])} :
              /\ mDisks' = [mDisks EXCEPT ![dev] = r.d]
              /\ Commit(r.w)
              /\ ret' = Returned("uevent", "destroy", r.d.mId, r.res, "")
        /\ UNCHANGED mShutdown

\* the destroyed object leaves the registry: Disk::~Disk
Delete ==
    \E dev \in DOMAIN mDisks :
        /\ ret.op = "destroy" /\ ~mDisks[dev].mCreated
        /\ mDisks' = Without(mDisks, dev)
        /\ Commit(DiskDtor([d |-> mDisks[dev], w |-> World]))
        /\ ret' = Returned("uevent", "delete", mDisks[dev].mId, OK, "")
        /\ UNCHANGED mShutdown

LifeOutputs == {MbrTwo, NoTable}

\* volume mount <id> <flags> <user> of an ext4 volume, every helper succeeding
MountPlain ==
    \E id \in VolumeIds(mDisks) :
        VolumeCmd(<<"volume", "mount", id, "2", "10">>, Ext4Probe, MountOk, FormatOk)

NextLife ==
    \/ Room /\ Construct(ScanSources) /\ Quiet
    \/ Create(LifeOutputs) /\ Quiet
    \/ Settled /\ Rescan(LifeOutputs) /\ Quiet
    \/ Settled /\ Partitioned /\ Quiet
    \/ Settled /\ MountPlain /\ Quiet
    \/ Destroy /\ Quiet
    \/ Delete /\ Quiet

SpecLife == Init /\ [][NextLife]_vars

-----------------------------------------------------------------------------
(* SpecMain: main().  pc["main"] is the statement main() is at; the uevent *)
(* thread runs once NetlinkManager::start has returned, the command thread *)
(* once startListener has; given holds what process_config registered      *)

\* Disk::Flags
kAdoptable == 1
kDefaultPrimary == 2

\* fstab records: what fs_mgr says of each
RecUsb == [voldmanaged |-> TRUE, nonremovable |-> FALSE, blk_device |-> "/devices/*/usb*",
           label |-> "udisk", encryptable |-> FALSE, noemulatedsd |-> FALSE]
RecFixed == [voldmanaged |-> TRUE, nonremovable |-> TRUE, blk_device |-> "/devices/*/emmc",
             label |-> "emmc", encryptable |-> TRUE, noemulatedsd |-> FALSE]
RecData == [voldmanaged |-> FALSE, nonremovable |-> FALSE, blk_device |-> "/dev/block/data",
            label |-> "data", encryptable |-> TRUE, noemulatedsd |-> FALSE]

\* what fs_mgr_read_fstab returns: no table, or the records
NoFstab == [recs |-> <<>>, read |-> FALSE]
Fstab(recs) == [recs |-> recs, read |-> TRUE]
Fstabs == {NoFstab, Fstab(<<>>), Fstab(<<RecData, RecUsb>>), Fstab(<<RecFixed>>)}

\* the DiskSource process_config makes of a record
DiskSource(rec, primary) ==
    [sysPattern |-> rec.blk_device, nickname |-> rec.label,
     flags |-> (IF rec.encryptable THEN kAdoptable ELSE 0)
               + (IF rec.noemulatedsd \/ primary THEN kDefaultPrimary ELSE 0)]

\* process_config: -1 without a table, else every vold-managed record that
\* is not nonremovable becomes a disk source
process_config(fstab, primary) ==
    IF ~fstab.read THEN [res |-> -1, sources |-> {}]
    ELSE [res |-> 0,
          sources |-> {DiskSource(fstab.recs[i], primary) :
                          i \in {k \in 1..Len(fstab.recs) :
                                    /\ fstab.recs[k].voldmanaged
                                    /\ ~fstab.recs[k].nonremovable}}]

\* if (!(m = Instance())) exit(1)
AfterInstance(made, next) == IF ~made THEN "exit(1)" ELSE next

\* a start() that swallows its failure
AfterStart_continues(res, next) == next

\* if (x->start()) exit(1)
AfterStart(res, next) == IF res # 0 THEN "exit(1)" ELSE next

\* one statement of main(): from position at to position to
MainStep(at, op, res, to) ==
    /\ pc["main"] = at
    /\ pc' = [pc EXCEPT !["main"] = to]
    /\ ret' = Returned("main", op, "", res, "")
    /\ UNCHANGED <<mDisks, mounts, dirs, nodes, out, log, calls, mLock, mLoop, mShutdown>>

\* parse_args: the four CHECKs abort without the four contexts
ParseArgs ==
    \E given4 \in BOOLEAN :
        /\ MainStep("parse_args", "parse_args", OK,
                    IF given4 THEN "VolumeManager::Instance" ELSE "abort")
        /\ UNCHANGED given

VmInstance ==
    \E made \in BOOLEAN :
        /\ MainStep("VolumeManager::Instance", "VolumeManager::Instance",
                    IF made THEN OK ELSE -1, AfterInstance(made, "NetlinkManager::Instance"))
        /\ UNCHANGED given

\* NetlinkManager::Instance, then new CommandListener and the setBroadcaster
\* calls
NmInstance ==
    \E made \in BOOLEAN :
        /\ MainStep("NetlinkManager::Instance", "NetlinkManager::Instance",
                    IF made THEN OK ELSE -1, AfterInstance(made, "VolumeManager::start"))
        /\ UNCHANGED given

VmStart ==
    \E res \in {0, -1} :
        /\ MainStep("VolumeManager::start", "VolumeManager::start", res,
                    AfterStart(res, "process_config"))
        /\ UNCHANGED given

\* process_config: its failure is logged and main goes on
ProcessConfig ==
    \E fstab \in Fstabs : \E primary \in BOOLEAN :
        \E r \in {process_config(fstab, primary)} :
            /\ MainStep("process_config", "process_config", r.res, "NetlinkManager::start")
            /\ given' = [sources |-> r.sources]

NmStart ==
    \E res \in {0, -1} :
        /\ MainStep("NetlinkManager::start", "NetlinkManager::start", res,
                    AfterStart(res, "coldboot"))
        /\ UNCHANGED given

\* set_media_poll_time and coldboot: neither returns a status
Coldboot ==
    /\ MainStep("coldboot", "coldboot", OK, "startListener")
    /\ UNCHANGED given

\* cl->startListener; after it main sleeps for ever
StartListener ==
    \E res \in {0, -1} :
        /\ MainStep("startListener", "startListener", res, AfterStart(res, "loop"))
        /\ UNCHANGED given

\* the uevent thread runs
Listening == pc["main"] \in {"coldboot", "startListener", "loop"}

\* a command thread that runs as soon as the uevent thread does
Serving_early == pc["main"] \in {"coldboot", "startListener", "loop"}

\* the command thread runs
Serving == pc["main"] = "loop"

\* the block devices that match a registered disk source
Matching == {src \in UsbSources : \E c \in given.sources : c.nickname = src.nickname}

InitMain ==
    /\ mDisks = <<>>
    /\ mounts = EmptyBag
    /\ dirs = {}
    /\ nodes = {}
    /\ out = <<>>
    /\ ret = Returned("", "", "", 0, "")
    /\ log = <<>>
    /\ calls = <<>>
    /\ mLock = ""
    /\ pc = [t \in {"main", "uevent", "volume"} |->
                IF t = "main" THEN "parse_args" ELSE "idle"]
    /\ mLoop = ""
    /\ mShutdown = FALSE
    /\ given = [sources |-> {}]

NextMain ==
    \/ ParseArgs
    \/ VmInstance
    \/ NmInstance
    \/ VmStart
    \/ ProcessConfig
    \/ NmStart
    \/ Coldboot
    \/ StartListener
    \/ Listening /\ Add(Matching, FsOutputs) /\ Quiet
    \/ Listening /\ Remove /\ Quiet
    \/ Serving /\ MountPlain /\ Quiet
    \/ Serving /\ Unmount /\ Quiet

SpecMain == InitMain /\ [][NextMain]_vars

-----------------------------------------------------------------------------
(* SpecCheck: one USB disk, physical-only or not, whose volume is mounted  *)
(* with each supported filesystem while the check helper succeeds or       *)
(* fails; each mount leaves its inputs in given                            *)

CheckProbes ==
    {[res |-> OK, fsType |-> f, uuid |-> "U1", label |-> ""] :
        f \in {"vfat", "ntfs", "exfat", "hfs", "ext2", "ext4", "iso9660", "udf"}}

CheckEnvs == {MountOk, [MountOk EXCEPT !.check = 1]}

\* volume mount <id> <flags> <user>, with what blkid and the helpers returned
\* kept in given
MountChecked ==
    \E id \in VolumeIds(mDisks) : \E probe \in CheckProbes : \E e \in CheckEnvs :
        /\ VolumeCmd(<<"volume", "mount", id, "2", "10">>, probe, e, FormatOk)
        /\ given' = [probe |-> probe, e |-> e]

NextCheck ==
    \/ Add(UsbSources, FsOutputs) /\ Quiet
    \/ Remove /\ Quiet
    \/ Unmount /\ Quiet
    \/ MountChecked /\ UNCHANGED <<log, mLock, pc>>

SpecCheck == Init /\ [][NextCheck]_vars

-----------------------------------------------------------------------------
(* Observations shared by the properties                                   *)

\* the volume objects alive in the registry
Volumes ==
    UNION {{mDisks[dev].mVolumes[i] : i \in 1..Len(mDisks[dev].mVolumes)} :
              dev \in DOMAIN mDisks}

\* kernel mounts whose target is path, in a mount table
MountsOn(table, path) == NMounts([mounts |-> table], path)

\* the volume a command named, before and after it
Named(disks, id) == {v \in UNION {{disks[dev].mVolumes[i] :
                                      i \in 1..Len(disks[dev].mVolumes)} :
                                  dev \in DOMAIN disks} : v.mId = id}

-----------------------------------------------------------------------------
(* C1 *)

\* the last handler was a volume mount of v that answered success
MountAnswered(v) ==
    /\ ret.by = "volume" /\ ret.op = "mount" /\ ret.code = "CommandOkay"
    /\ ret.id = v.mId

\* C1: in every reachable state, every volume in state MOUNTED has exactly
\* one kernel mount whose target is its rawPath; and once volume mount of
\* a partition-derived vfat volume has answered success, its mount point
\* /mnt/media_rw/<uuid> is a directory that carries a kernel mount
C1_MountedHasOneMount ==
    \A v \in Volumes :
       /\ v.mState = "MOUNTED" => MountsOn(mounts, v.mRawPath) = 1
       /\ (MountAnswered(v) /\ v.mFsType = "vfat" /\ ~v.mJustPhysicalDev) =>
             /\ RawPathOf(StableName(v)) \in dirs
             /\ MountsOn(mounts, RawPathOf(StableName(v))) = 1

-----------------------------------------------------------------------------
(* C2 *)

\* C2: in every reachable state, there is no kernel mount at the rawPath of
\* a volume that is not in state MOUNTED
C2_UnmountedHasNoMount ==
    \A v \in Volumes : v.mState # "MOUNTED" => MountsOn(mounts, v.mRawPath) = 0

-----------------------------------------------------------------------------
(* C3 *)

\* the broadcast at position i of the history names volume or disk id
Sent(i, code) == log[i].code = code

\* C3: in every broadcast history, each VolumeCreated that carries a disk's
\* id comes after a DiskCreated of that disk which no DiskDestroyed of the
\* disk follows before it, and each DiskDestroyed comes after a
\* VolumeDestroyed of every child announced before it
C3_DiskBracketsVolumes ==
    \A i \in 1..Len(log) :
       /\ Sent(i, "VolumeCreated") =>
             \E j \in 1..(i - 1) :
                /\ Sent(j, "DiskCreated") /\ log[j].id = log[i].val
                /\ \A m \in (j + 1)..(i - 1) :
                      ~(Sent(m, "DiskDestroyed") /\ log[m].id = log[i].val)
       /\ Sent(i, "DiskDestroyed") =>
             \A k \in 1..(i - 1) :
                (Sent(k, "VolumeCreated") /\ log[k].val = log[i].id) =>
                   \E m \in (k + 1)..(i - 1) :
                      Sent(m, "VolumeDestroyed") /\ log[m].id = log[k].id

\* a history with the whole life of a disk that had a child
C3_Witness ==
    \E i, j, k \in 1..Len(log) :
       /\ i < j /\ j < k
       /\ Sent(i, "VolumeCreated") /\ Sent(j, "VolumeDestroyed") /\ Sent(k, "DiskDestroyed")
       /\ log[j].id = log[i].id /\ log[k].id = log[i].val

-----------------------------------------------------------------------------
(* C4 *)

\* the step is the body of a command that reached a VolumeManager or Volume
\* call, not the acquisition of the lock
CommandBody ==
    /\ ~(mLock = "" /\ mLock' # "")
    /\ ret'.by \in {"volume", "loop"}
    /\ ret'.op # ""

\* C4: every command that makes a VolumeManager or Volume call makes it
\* while its thread holds the manager lock, and the loop slot changes only
\* in a step of a thread that holds the lock
C4_CommandsHoldLock ==
    [][/\ CommandBody => mLock = ret'.by
       /\ mLoop' # mLoop => mLock = ret'.by]_vars

-----------------------------------------------------------------------------
(* C5 *)

IsVolumeCreated(e) == e.code = "VolumeCreated"

\* the ids of the volumes of a list, in list order
IdsOf(vols) == [i \in 1..Len(vols) |-> vols[i].mId]

\* the ids of the volumes a handler announced, in order
CreatedIn(events) == IdsOf([i \in 1..Len(SelectSeq(events, IsVolumeCreated)) |->
                              [mId |-> SelectSeq(events, IsVolumeCreated)[i].id]])

\* the step is a call of Disk::readPartitions on dev, from Disk::create or
\* as a rescan
Scanned(dev) ==
    /\ dev \in DOMAIN mDisks'
    /\ ret'.by = "uevent" /\ ret'.id = mDisks'[dev].mId
    /\ \/ ret'.op = "readPartitions" /\ dev \in DOMAIN mDisks
       \/ ret'.op = "create" /\ dev \notin DOMAIN mDisks /\ ~mDisks'[dev].mSrdisk

\* the children dev had before the step
ChildrenBefore(dev) == IF dev \in DOMAIN mDisks THEN mDisks[dev].mVolumes ELSE <<>>

\* C5: after every call of Disk::readPartitions the disk's volume list is
\* the list of the volumes that scan created, in scan order, and every
\* child the disk had before was destroyed by the call
C5_ListIsScanResult ==
    [][\A dev \in DOMAIN mDisks' :
          Scanned(dev) =>
             /\ IdsOf(mDisks'[dev].mVolumes) = CreatedIn(out')
             /\ \A i \in 1..Len(ChildrenBefore(dev)) :
                   \E k \in 1..Len(out') :
                      /\ out'[k].code = "VolumeDestroyed"
                      /\ out'[k].id = ChildrenBefore(dev)[i].mId]_vars

-----------------------------------------------------------------------------
(* C6 *)

\* no mount in table b that table a does not have
NoNewMount(a, b) == \A m \in BagToSet(b) : CopiesIn(m, b) <= CopiesIn(m, a)

\* the step is a volume mount <id> that answered failure
MountFailed ==
    ret'.by = "volume" /\ ret'.op = "mount" /\ ret'.code = "OperationFailed"

\* C6: a mount of an UNMOUNTED volume that fails leaves no directory and no
\* kernel mount that were not there before, and the volume UNMOUNTED or
\* UNMOUNTABLE
C6_MountIsTransactional ==
    [][\A v \in Named(mDisks, ret'.id) :
          (MountFailed /\ v.mState = "UNMOUNTED") =>
             /\ dirs' \subseteq dirs
             /\ NoNewMount(mounts, mounts')
             /\ \A u \in Named(mDisks', ret'.id) :
                   u.mState \in {"UNMOUNTED", "UNMOUNTABLE"}]_vars

-----------------------------------------------------------------------------
(* C7 *)

\* the step is a successful volume unmount <id> that follows the successful
\* volume mount <id>
RoundTrip ==
    /\ ret.by = "volume" /\ ret.op = "mount" /\ ret.code = "CommandOkay"
    /\ ret'.by = "volume" /\ ret'.op = "unmount" /\ ret'.code = "CommandOkay"
    /\ ret'.id = ret.id

\* what both readings of C7 share: after the unmount rawPath is cleared, the
\* mount point is gone, no kernel mount is at it, the volume is UNMOUNTED
Restored(v, u) ==
    /\ u.mRawPath = ""
    /\ v.mRawPath \notin dirs'
    /\ MountsOn(mounts', v.mRawPath) = 0
    /\ u.mState = "UNMOUNTED"

-----------------------------------------------------------------------------
(* C8 *)

\* the step is the block-remove of disk dev, one of whose children is MOUNTED
Removed(dev) ==
    /\ dev \in DOMAIN mDisks /\ dev \notin DOMAIN mDisks'
    /\ ret'.by = "uevent" /\ ret'.op = "destroy"
    /\ \E i \in 1..Len(mDisks[dev].mVolumes) : mDisks[dev].mVolumes[i].mState = "MOUNTED"

\* C8: after the block-remove of a disk with a MOUNTED child the broadcasts
\* are one VolumeDestroyed per child in list order and then DiskDestroyed,
\* the disk object has no children and is not created, no child that has a
\* mount point keeps its directory or a kernel mount at it, and no device
\* node of a child or of the disk remains
C8_RemoveCleansUp ==
    [][\A dev \in DOMAIN mDisks :
          Removed(dev) =>
             /\ out' = [i \in 1..(Len(mDisks[dev].mVolumes) + 1) |->
                          IF i <= Len(mDisks[dev].mVolumes)
                          THEN [id |-> mDisks[dev].mVolumes[i].mId,
                                code |-> "VolumeDestroyed", val |-> ""]
                          ELSE [id |-> mDisks[dev].mId, code |-> "DiskDestroyed",
                                val |-> ""]]
             /\ DiskDestroy([d |-> mDisks[dev], w |-> World]).d.mVolumes = <<>>
             /\ ~DiskDestroy([d |-> mDisks[dev], w |-> World]).d.mCreated
             /\ \A i \in 1..Len(mDisks[dev].mVolumes) :
                   /\ mDisks[dev].mVolumes[i].mRawPath # "" =>
                         /\ mDisks[dev].mVolumes[i].mRawPath \notin dirs'
                         /\ MountsOn(mounts', mDisks[dev].mVolumes[i].mRawPath) = 0
                   /\ mDisks[dev].mVolumes[i].mDevPath \notin nodes'
             /\ mDisks[dev].mDevPath \notin nodes']_vars

-----------------------------------------------------------------------------
(* C9 *)

\* code and id of each broadcast of a handler, in order
Codes(events) == [i \in 1..Len(events) |-> <<events[i].code, events[i].id>>]

\* one VolumeCreated per volume of a list, in list order
VolumesCreated(vols) == [i \in 1..Len(vols) |-> <<"VolumeCreated", vols[i].mId>>]

\* the step is Disk::create of the non-optical disk dev
Created(dev) ==
    /\ dev \notin DOMAIN mDisks /\ dev \in DOMAIN mDisks'
    /\ ret'.by = "uevent" /\ ret'.op = "create"
    /\ ~mDisks'[dev].mSrdisk

\* the block major of dev is one the daemon supports
Supported(dev) ==
    \/ major(dev) \in ScsiMajors
    \/ major(dev) = kMajorBlockMmc
    \/ isVirtioBlkDevice(major(dev), given'.emulator)

\* the sysfs file readMetadata takes the label from could be read
LabelRead(dev) ==
    IF major(dev) \in ScsiMajors THEN given'.vendor.ok
    ELSE IF major(dev) = kMajorBlockMmc THEN given'.manfid.ok
    ELSE isVirtioBlkDevice(major(dev), given'.emulator)

\* the partition budget, as the int8_t readPartitions keeps it in, is not
\* negative
HasBudget(dev) ==
    IF major(dev) \in ScsiMajors THEN TRUE
    ELSE IF major(dev) = kMajorBlockMmc
    THEN given'.minors.ok /\ ToInt8(atoi(given'.minors.text)) >= 0
    ELSE isVirtioBlkDevice(major(dev), given'.emulator)

DiskEvent(dev, code) == <<<<code, DiskId(dev)>>>>

MetadataEvents(dev) ==
    DiskEvent(dev, "DiskSizeChanged") \o DiskEvent(dev, "DiskLabelChanged")
       \o DiskEvent(dev, "DiskSysPathChanged")

-----------------------------------------------------------------------------
(* C10 *)

IsFormat(c) == c = "vfat::Format"
IsNodeOrFormat(c) ==
    c \in {"CreateDeviceNode", "WipeBlockDevice", "vfat::Format", "DestroyDeviceNode"}

\* the helper calls of create, format("auto"), destroy, create on one
\* volume; a volume bound to the parent's device name owns no node
Pass(v) ==
    IF v.mJustPhysicalDev THEN <<"WipeBlockDevice", "vfat::Format">>
    ELSE <<"CreateDeviceNode", "WipeBlockDevice", "vfat::Format", "DestroyDeviceNode",
           "CreateDeviceNode">>

RECURSIVE Passes(_, _)
Passes(vols, i) == IF i > Len(vols) THEN <<>> ELSE Pass(vols[i]) \o Passes(vols, i + 1)

\* the step is a readPartitions of dev that runs with mJustPartitioned set
ScannedJustPartitioned(dev) ==
    /\ dev \in DOMAIN mDisks /\ dev \in DOMAIN mDisks'
    /\ ret'.by = "uevent" /\ ret'.op = "readPartitions" /\ ret'.id = mDisks[dev].mId
    /\ mDisks[dev].mJustPartitioned

\* the children the scan found in place and did not destroy
Kept(dev) == IF mDisks[dev].mSrdisk THEN Len(mDisks[dev].mVolumes) ELSE 0

\* the children the scan destroyed
Replaced(dev) == SubSeq(mDisks[dev].mVolumes, Kept(dev) + 1, Len(mDisks[dev].mVolumes))

OwnsNode(v) == ~v.mJustPhysicalDev

\* the volumes the scan created
NewVolumes(dev) ==
    SubSeq(mDisks'[dev].mVolumes, Kept(dev) + 1, Len(mDisks'[dev].mVolumes))

\* C10: a readPartitions with justPartitioned set takes every volume it
\* creates through create, format("auto"), destroy, create; the first three
\* broadcast nothing, so that the scan's broadcasts are the VolumeDestroyed
\* of the children it replaced, one VolumeCreated per new volume in scan
\* order and DiskScanned, and every new volume ends created and not silent
C10_SilentFormatPass ==
    [][\A dev \in DOMAIN mDisks :
          ScannedJustPartitioned(dev) =>
             /\ SelectSeq(calls', IsNodeOrFormat) =
                   [i \in 1..Len(SelectSeq(Replaced(dev), OwnsNode)) |-> "DestroyDeviceNode"]
                      \o Passes(NewVolumes(dev), 1)
             /\ Codes(out') =
                   [i \in 1..Len(Replaced(dev)) |->
                       <<"VolumeDestroyed", Replaced(dev)[i].mId>>]
                      \o VolumesCreated(NewVolumes(dev))
                      \o (IF mDisks[dev].mSrdisk THEN <<>>
                          ELSE DiskEvent(dev, "DiskScanned"))
             /\ \A i \in 1..Len(NewVolumes(dev)) :
                   /\ NewVolumes(dev)[i].mCreated
                   /\ ~NewVolumes(dev)[i].mSilent
                   /\ NewVolumes(dev)[i].mState = "UNMOUNTED"]_vars

\* a just-partitioned scan that formatted and announced two volumes
C10_Witness ==
    /\ ret.by = "uevent" /\ ret.op = "readPartitions"
    /\ Len(SelectSeq(calls, IsFormat)) = 2
    /\ Len(SelectSeq(out, IsVolumeCreated)) = 2

-----------------------------------------------------------------------------
(* C11 *)

\* the verbs VolumeCmd knows
KnownVerbs == {"reset", "shutdown", "debug", "mkdirs", "mount", "unmount", "format"}

\* the step is the body of a volume command
VolumeBody == ~(mLock = "" /\ mLock' # "") /\ ret'.by = "volume"

\* the command of the step had no verb or an unknown one, lacked an
\* argument, or named a volume that findVolume does not resolve
Malformed ==
    \/ ret'.op \notin KnownVerbs
    \/ ret'.op \in {"mount", "unmount", "format"} /\ ret'.id \notin VolumeIds(mDisks)
    \/ ret'.op = "mkdirs" /\ ret'.id = ""

\* C11: a volume command with an unknown verb, too few arguments or an id
\* that findVolume does not resolve is answered CommandSyntaxError and
\* changes no disk, no volume, no mount, directory or device node, runs no
\* helper and broadcasts nothing
C11_SyntaxErrorTouchesNothing ==
    [][(VolumeBody /\ Malformed) =>
          /\ ret'.code = "CommandSyntaxError"
          /\ mDisks' = mDisks /\ mShutdown' = mShutdown /\ mLoop' = mLoop
          /\ mounts' = mounts /\ dirs' = dirs /\ nodes' = nodes
          /\ calls' = <<>> /\ out' = <<>>]_vars

\* a mount of an unknown id answered while a disk with a volume is present
C11_Witness ==
    /\ ret.by = "volume" /\ ret.op = "mount" /\ ret.id = "nosuch"
    /\ ret.code = "CommandSyntaxError"
    /\ VolumeIds(mDisks) # {}

-----------------------------------------------------------------------------
(* C12 *)

\* the step is a volume mount of v, left as u, that doMount took as far as
\* the test of the mount point, and the rawPath it computed already was a
\* kernel mount point
MountOnMounted(v, u) ==
    /\ ret'.by = "volume" /\ ret'.op = "mount" /\ ret'.id = v.mId
    /\ v.mState = "UNMOUNTED"
    /\ SupportedFs(u.mFsType)
    /\ ~(~u.mJustPhysicalDev /\ u.mFsType = "vfat")
    /\ MountsOn(mounts, RawPathOf(StableName(u))) > 0

\* C12: a mount whose computed rawPath is already a kernel mount point
\* fails and changes neither the volume's state, rawPath, path and
\* internalPath nor the kernel mounts
C12_AlreadyMountedChangesNothing ==
    [][\A v \in Named(mDisks, ret'.id) : \A u \in Named(mDisks', ret'.id) :
          MountOnMounted(v, u) =>
             /\ ret'.code = "OperationFailed"
             /\ u.mState = v.mState
             /\ u.mRawPath = v.mRawPath
             /\ u.mPath = v.mPath
             /\ u.mInternalPath = v.mInternalPath
             /\ mounts' = mounts]_vars

-----------------------------------------------------------------------------
(* C13 *)

\* the nine filesystem types mount accepts
NineFs == {"vfat", "ntfs", "exfat", "ext2", "ext3", "ext4", "hfs", "iso9660", "udf"}

\* the step is a volume mount of the UNMOUNTED volume v, left as u
MountCalled(v, u) ==
    /\ ret'.by = "volume" /\ ret'.op = "mount" /\ ret'.id = v.mId
    /\ u.mId = v.mId
    /\ v.mState = "UNMOUNTED"

IsMountStep(c) ==
    c \in {"fs_prepare_dir", "umount2", "vfat::Check", "ntfs::Check", "exfat::Check",
           "hfsplus::Check", "iso9660::Check", "ext4::Check", "vfat::Mount", "ntfs::Mount",
           "exfat::Mount", "ext4::Mount", "hfsplus::Mount", "iso9660::Mount", "chown",
           "restorecon", "GetLogicalPartitionDevice"}

\* C13: a mount whose probed fsType is not one of vfat, ntfs, exfat, ext2,
\* ext3, ext4, hfs, iso9660, udf fails with no mount point prepared, no
\* check or mount helper run and no kernel mount made
C13_OnlyNineFsMount ==
    [][\A v \in Named(mDisks, ret'.id) : \A u \in Named(mDisks', ret'.id) :
          (MountCalled(v, u) /\ u.mFsType \notin NineFs) =>
             /\ ret'.code = "OperationFailed"
             /\ dirs' = dirs
             /\ mounts' = mounts
             /\ SelectSeq(calls', IsMountStep) = <<>>]_vars

-----------------------------------------------------------------------------
(* C14 *)

\* the step is a volume format of v that VolumeBase::format let through to
\* doFormat
FormatCalled(v) ==
    /\ ret'.by = "volume" /\ ret'.op = "format" /\ ret'.id = v.mId
    /\ v.mState \in {"UNMOUNTED", "UNMOUNTABLE"}

\* C14: format with an fsType other than "vfat" and "auto" returns -EINVAL
\* and neither wipes nor formats; with "vfat" or "auto" it calls
\* WipeBlockDevice and then vfat::Format, fails when vfat::Format fails and
\* succeeds when it succeeds
C14_FormatOnlyFat ==
    [][\A v \in Named(mDisks, ret'.id) :
          FormatCalled(v) =>
             IF given'.fsType \in {"vfat", "auto"}
             THEN /\ calls' = <<"WipeBlockDevice", "vfat::Format">>
                  /\ given'.fe.format # 0 =>
                        ret'.res # OK /\ ret'.code = "OperationFailed"
                  /\ given'.fe.format = 0 =>
                        ret'.res = OK /\ ret'.code = "CommandOkay"
             ELSE /\ ret'.res = -EINVAL /\ ret'.code = "OperationFailed"
                  /\ calls' = <<>>]_vars

\* a format "auto" whose FAT formatter failed
C14_Witness ==
    /\ ret.by = "volume" /\ ret.op = "format" /\ ret.code = "OperationFailed"
    /\ given # <<>> /\ given.fsType = "auto" /\ given.fe.format # 0
    /\ calls = <<"WipeBlockDevice", "vfat::Format">>

-----------------------------------------------------------------------------
(* C15 *)

\* a call of one of the helpers a mount can fail in
IsMountHelper(c) == IsMountStep(c) /\ c \notin {"restorecon", "GetLogicalPartitionDevice"}

\* the last command was a volume mount <id> that failed after it had called
\* a check, fs_prepare_dir, mount or chown helper
HelperFailed(r, c) ==
    /\ r.by = "volume" /\ r.op = "mount" /\ r.code = "OperationFailed"
    /\ SelectSeq(c, IsMountHelper) # <<>>

\* the step mounts the volume of the failed mount again, blkid answering as
\* before and every helper succeeding
Repeated ==
    /\ HelperFailed(ret, calls)
    /\ ret'.by = "volume" /\ ret'.op = "mount" /\ ret'.id = ret.id
    /\ given # <<>> /\ given'.probe = given.probe /\ given'.e = MountOk

\* C15: a mount of an UNMOUNTED volume that fails in a helper leaves the
\* volume UNMOUNTED with its device node present, and the same mount
\* repeated at once with every helper succeeding succeeds
C15_FailedMountCanBeRepeated ==
    [][/\ \A v \in Named(mDisks, ret'.id) : \A u \in Named(mDisks', ret'.id) :
             (HelperFailed(ret', calls') /\ v.mState = "UNMOUNTED") =>
                /\ u.mState = "UNMOUNTED"
                /\ OwnsNode(u) => \E n \in nodes' : n.path = u.mDevPath /\ n.dev = u.mDevice
       /\ Repeated => ret'.code = "CommandOkay"]_vars

-----------------------------------------------------------------------------
(* C16 *)

\* the device node of disk d is there and names d's device
HasNode(d, ns) == \E n \in ns : n.path = d.mDevPath /\ n.dev = d.mDevice

-----------------------------------------------------------------------------
(* C17 *)

\* C17: a disk with mCreated false has no volumes; every volume of a disk
\* with mCreated set has been created and not destroyed, also when the
\* scan ran with mJustPartitioned set
C17_VolumesOfCreatedDisk ==
    \A dev \in DOMAIN mDisks :
        /\ ~mDisks[dev].mCreated => mDisks[dev].mVolumes = <<>>
        /\ mDisks[dev].mCreated =>
              \A i \in 1..Len(mDisks[dev].mVolumes) :
                 /\ mDisks[dev].mVolumes[i].mCreated
                 /\ mDisks[dev].mVolumes[i].mState \in {"UNMOUNTED", "MOUNTED", "UNMOUNTABLE"}

\* a created disk whose volumes a scan with mJustPartitioned set has added
C17_Witness ==
    \E dev \in DOMAIN mDisks :
        /\ mDisks[dev].mCreated /\ Len(mDisks[dev].mVolumes) > 1
        /\ ret.op = "readPartitions" /\ ret.id = mDisks[dev].mId
        /\ \E i \in 1..Len(calls) : calls[i] = "vfat::Format"

-----------------------------------------------------------------------------
(* C18 *)

\* the statements of main() whose failure ends the daemon
FatalSteps ==
    {"VolumeManager::Instance", "NetlinkManager::Instance", "VolumeManager::start",
     "NetlinkManager::start", "startListener"}

\* the step is statement op of main()
MainDid(op) == ret'.by = "main" /\ ret'.op = op /\ pc'["main"] # pc["main"]

\* C18: when a manager singleton cannot be created or VolumeManager,
\* NetlinkManager or the command listener cannot be started, main() calls
\* exit(1); a failed process_config lets main() go on to
\* NetlinkManager::start; once main() sleeps in its loop it stays there
\* whatever the uevent and command threads do
C18_StartupExits ==
    [][/\ \A op \in FatalSteps :
             (MainDid(op) /\ ret'.res # OK) => pc'["main"] = "exit(1)"
       /\ (MainDid("process_config") /\ ret'.res # OK) =>
             pc'["main"] = "NetlinkManager::start"
       /\ pc["main"] = "loop" => pc'["main"] = "loop"]_vars

\* main() has called exit(1) because the command listener did not start,
\* with a disk that the uevent thread had added by then
C18_Witness ==
    /\ pc["main"] = "exit(1)" /\ mDisks # <<>>
    /\ ret.by = "main" /\ ret.op = "startListener" /\ ret.res # OK

-----------------------------------------------------------------------------
(* C19 *)

\* the positions of the DiskScanned broadcasts of disk id among events
ScannedAt(events, id) ==
    {i \in 1..Len(events) : events[i].code = "DiskScanned" /\ events[i].id = id}

\* C19: every readPartitions, whatever it returns, broadcasts DiskScanned
\* for its disk exactly once and leaves mJustPartitioned false
C19_ScanAlwaysAnnounced ==
    [][\A dev \in DOMAIN mDisks :
          (ret'.by = "uevent" /\ ret'.op = "readPartitions" /\ ret'.id = mDisks[dev].mId) =>
             /\ Cardinality(ScannedAt(out', mDisks[dev].mId)) = 1
             /\ ~mDisks'[dev].mJustPartitioned]_vars

-----------------------------------------------------------------------------
(* C20 *)

\* the step is a readPartitions of the non-optical disk dev, from
\* Disk::create or on its own, that read a partition dump while
\* IsJustPhysicalDevice had a device name to give and blkid could read the
\* disk
ScannedPhysical(dev) ==
    /\ ret'.by = "uevent" /\ ret'.op \in {"create", "readPartitions"}
    /\ ret'.id = mDisks'[dev].mId
    /\ ~mDisks'[dev].mSrdisk
    /\ HasBudget(dev)
    /\ given'.sgdisk.res = OK /\ given'.probe = OK
    /\ given'.phys # ""

\* C20: a readPartitions for which IsJustPhysicalDevice yields a device name
\* ends with one child, the volume named after that device, and with no
\* device node of a public:<maj>,<min> volume, whatever the table is
C20_PhysicalDeviceOnly ==
    [][\A dev \in DOMAIN mDisks' :
          ScannedPhysical(dev) =>
             /\ Len(mDisks'[dev].mVolumes) = 1
             /\ mDisks'[dev].mVolumes[1].mId = given'.phys
             /\ mDisks'[dev].mVolumes[1].mJustPhysicalDev
             /\ \A n \in nodes' : n.path = mDisks'[dev].mDevPath]_vars

-----------------------------------------------------------------------------
(* C21 *)

\* the dump names an mbr or gpt table
TableSet(output) ==
    \E i \in 1..Len(output) :
        Len(output[i]) > 1 /\ output[i][1] = "DISK" /\ output[i][2] \in {"mbr", "gpt"}

\* the dump holds a PART record
HasPart(output) ==
    \E i \in 1..Len(output) : Len(output[i]) > 0 /\ output[i][1] = "PART"

\* the step is a readPartitions of the non-optical disk dev, from
\* Disk::create or on its own, that got a dump from sgdisk
ScannedDump(dev) ==
    /\ ret'.by = "uevent" /\ ret'.op \in {"create", "readPartitions"}
    /\ ret'.id = mDisks'[dev].mId
    /\ ~mDisks'[dev].mSrdisk
    /\ HasBudget(dev)
    /\ given'.sgdisk.res = OK

\* the whole-disk probe was made
Probed(c) == \E i \in 1..Len(c) : c[i] = "blkid"

\* the one volume of the list is the whole-disk volume of dev
IsWholeDisk(vols, dev) ==
    /\ Len(vols) = 1
    /\ vols[1].mId = PublicId(dev) /\ vols[1].mDevice = dev
    /\ ~vols[1].mJustPhysicalDev

\* C21 as stated: without a table mode or without a PART record the scan
\* probes the whole disk and, when the probe succeeds, ends with the one
\* whole-disk volume of the disk's own (major, minor), else with no volume,
\* and returns OK; with a table mode and a PART record it does not probe
C21_FallbackWholeDisk ==
    [][\A dev \in DOMAIN mDisks' :
          ScannedDump(dev) =>
             IF ~TableSet(given'.sgdisk.output) \/ ~HasPart(given'.sgdisk.output)
             THEN /\ Probed(calls') /\ ret'.res = OK
                  /\ IF given'.probe = OK
                     THEN IsWholeDisk(mDisks'[dev].mVolumes, dev)
                     ELSE mDisks'[dev].mVolumes = <<>>
             ELSE ~Probed(calls')]_vars

\* C21: as above, but when IsJustPhysicalDevice yields a device name the one
\* volume the successful probe leads to is the volume named after that
\* device, not the whole-disk volume of the disk's (major, minor)
C21_FallbackOneVolume ==
    [][\A dev \in DOMAIN mDisks' :
          ScannedDump(dev) =>
             IF ~TableSet(given'.sgdisk.output) \/ ~HasPart(given'.sgdisk.output)
             THEN /\ Probed(calls') /\ ret'.res = OK
                  /\ IF given'.probe # OK
                     THEN mDisks'[dev].mVolumes = <<>>
                     ELSE IF given'.phys = ""
                     THEN IsWholeDisk(mDisks'[dev].mVolumes, dev)
                     ELSE /\ Len(mDisks'[dev].mVolumes) = 1
                          /\ mDisks'[dev].mVolumes[1].mId = given'.phys
                          /\ mDisks'[dev].mVolumes[1].mJustPhysicalDev
             ELSE ~Probed(calls')]_vars

\* a rescan that found PART records but no table and made the whole-disk
\* volume
C21_Witness ==
    /\ ret.by = "uevent" /\ ret.op = "readPartitions" /\ ret.res = OK
    /\ given # <<>> /\ given.sgdisk.res = OK /\ given.probe = OK /\ given.phys = ""
    /\ HasPart(given.sgdisk.output) /\ ~TableSet(given.sgdisk.output)
    /\ \E dev \in DOMAIN mDisks :
          ret.id = mDisks[dev].mId /\ IsWholeDisk(mDisks[dev].mVolumes, dev)

-----------------------------------------------------------------------------
(* C22 *)

\* the device of partition idx of disk dev: minor(dev) + idx, or the
\* separately enumerated device lp of a partition above 15
PartDevice(dev, idx, lp) ==
    IF idx > 15 /\ lp # <<>> THEN lp ELSE makedev(major(dev), minor(dev) + idx)

\* the record makes a volume under the table: in range, and under gpt of
\* the basic-data type
Accepted(line, table, budget) ==
    /\ Len(line) > 2 /\ line[1] = "PART"
    /\ strtol(line[2], 10) >= 1 /\ strtol(line[2], 10) <= budget
    /\ table = "mbr" \/ (table = "gpt" /\ EqualNoCase(line[3], kGptBasicData))

\* the table after the line
TableAfter(line, table) ==
    IF Len(line) > 1 /\ line[1] = "DISK" /\ line[2] \in {"mbr", "gpt"} THEN line[2]
    ELSE table

\* the devices of the volumes the claim expects of the dump, in record order
RECURSIVE ExpectedFrom(_, _, _, _)
ExpectedFrom(lines, table, dev, e) ==
    IF lines = <<>> THEN <<>>
    ELSE (IF Accepted(Head(lines), table, e.budget)
          THEN <<PartDevice(dev, strtol(Head(lines)[2], 10), e.lp)>>
          ELSE <<>>)
         \o ExpectedFrom(Tail(lines), TableAfter(Head(lines), table), dev, e)

\* the devices of a list of partition volumes
DevicesOf(vols) == [i \in 1..Len(vols) |-> vols[i].mDevice]

\* the step is a scan of the disk dev, not physical-only, whose dump has a
\* table and PART records
ScannedTable(dev) ==
    /\ ScannedDump(dev)
    /\ given'.phys = ""
    /\ TableSet(given'.sgdisk.output) /\ HasPart(given'.sgdisk.output)

\* C22: on a disk that is not physical-only the scan of a dump with a table
\* leaves one volume per accepted PART record, in record order: every
\* in-range record under mbr, the in-range records of the basic-data GUID
\* (case ignored) under gpt; its device is (major, minor + index), or the
\* separately enumerated device when the index is above 15 and there is one
C22_VolumesPerRecord ==
    [][\A dev \in DOMAIN mDisks' :
          ScannedTable(dev) =>
             /\ DevicesOf(mDisks'[dev].mVolumes) =
                   ExpectedFrom(given'.sgdisk.output, "", dev,
                                [budget |-> ToInt8(getMaxMinors(mDisks'[dev], given')),
                                 lp |-> given'.lp])
             /\ \A i \in 1..Len(mDisks'[dev].mVolumes) :
                   /\ ~mDisks'[dev].mVolumes[i].mJustPhysicalDev
                   /\ mDisks'[dev].mVolumes[i].mId =
                         PublicId(mDisks'[dev].mVolumes[i].mDevice)]_vars

-----------------------------------------------------------------------------
(* C23 *)

\* the partition budget as the claim gives it: 31 for a SCSI major, the
\* integer in perdev_minors for the MMC major, 15 for virtio-blk
Budget(dev) ==
    IF major(dev) \in ScsiMajors THEN 31
    ELSE IF major(dev) = kMajorBlockMmc THEN atoi(given'.minors.text)
    ELSE 15

\* the dump has an mbr table and PART records
IsMbrDump(output) ==
    /\ HasPart(output)
    /\ \E i \in 1..Len(output) :
          Len(output[i]) > 1 /\ output[i][1] = "DISK" /\ output[i][2] = "mbr"

\* the step is Disk::create of the disk dev, of a supported major and not
\* physical-only, whose budget could be read and whose dump has an mbr
\* table
CreatedFromMbr(dev) ==
    /\ Created(dev) /\ Supported(dev)
    /\ major(dev) = kMajorBlockMmc => given'.minors.ok
    /\ given'.sgdisk.res = OK /\ given'.phys = ""
    /\ IsMbrDump(given'.sgdisk.output)

\* C23: with a budget of 31 for SCSI, 15 for virtio-blk and the integer of
\* perdev_minors for MMC, the scan makes a volume of a PART record exactly
\* when its index is between 1 and the budget
C23_IndexWithinBudget ==
    [][\A dev \in DOMAIN mDisks' :
          CreatedFromMbr(dev) =>
             DevicesOf(mDisks'[dev].mVolumes) =
                ExpectedFrom(given'.sgdisk.output, "", dev,
                             [budget |-> Budget(dev), lp |-> given'.lp])]_vars

-----------------------------------------------------------------------------
(* C24 *)

\* the step is Disk::create of the disk dev
CreateDone(dev) ==
    /\ dev \notin DOMAIN mDisks /\ dev \in DOMAIN mDisks'
    /\ ret'.by = "uevent" /\ ret'.op = "create" /\ ret'.id = mDisks'[dev].mId

\* the calls of c that are not the constructor's CreateDeviceNode
AfterCtor(c) == SubSeq(c, 2, Len(c))

\* C24: Disk::create of a disk whose nickname starts with "sr" sets mCreated
\* and broadcasts DiskCreated only: no volume, no size read, no helper run;
\* of any other disk it sets mCreated, broadcasts DiskCreated first, takes
\* the size readMetadata reads, runs the partition dumper when the disk has
\* a budget; both return OK
C24_OpticalCreateSkipsScan ==
    [][\A dev \in DOMAIN mDisks' :
          CreateDone(dev) =>
             /\ ret'.res = OK /\ mDisks'[dev].mCreated
             /\ out'[1].code = "DiskCreated" /\ out'[1].id = mDisks'[dev].mId
             /\ mDisks'[dev].mSrdisk = StartsWith(mDisks'[dev].mNickname, "sr")
             /\ IF mDisks'[dev].mSrdisk
                THEN /\ Len(out') = 1
                     /\ mDisks'[dev].mVolumes = <<>>
                     /\ mDisks'[dev].mSize = -1
                     /\ AfterCtor(calls') = <<>>
                ELSE /\ mDisks'[dev].mSize = given'.size
                     /\ HasBudget(dev) <=>
                           (AfterCtor(calls') # <<>> /\ AfterCtor(calls')[1] = "sgdisk")]_vars

\* an optical disk created: DiskCreated alone, no volume
C24_Witness ==
    /\ ret.by = "uevent" /\ ret.op = "create" /\ ret.res = OK
    /\ \E dev \in DOMAIN mDisks :
          /\ mDisks[dev].mSrdisk /\ mDisks[dev].mCreated /\ mDisks[dev].mId = ret.id
          /\ mDisks[dev].mVolumes = <<>>
    /\ Len(out) = 1 /\ out[1].code = "DiskCreated"

-----------------------------------------------------------------------------
(* C25 *)

\* the step is a volume mount of the UNMOUNTED volume v that got as far as
\* the stable name: the probed filesystem is supported and is not a vfat
\* left to vold
NamedMount(v, u) ==
    /\ MountCalled(v, u)
    /\ SupportedFs(given'.probe.fsType)
    /\ ~(~v.mJustPhysicalDev /\ given'.probe.fsType = "vfat")

\* C25: the mount sets rawPath to /mnt/media_rw/<uuid> when the probe
\* returned a uuid and to /mnt/media_rw/<volume id> when it returned none
C25_StableNameIsUuidOrId ==
    [][\A v \in Named(mDisks, ret'.id) : \A u \in Named(mDisks', ret'.id) :
          NamedMount(v, u) =>
             u.mRawPath = RawPathOf(IF given'.probe.uuid # "" THEN given'.probe.uuid
                                    ELSE v.mId)]_vars

-----------------------------------------------------------------------------
(* C26 *)

\* the filesystems whose pre-mount check decides nothing, and those whose
\* check can fail the mount
Unchecked == {"ext2", "ext3", "ext4", "iso9660", "udf"}
Checked == {"vfat", "ntfs", "exfat", "hfs"}

\* a call of a mount helper
IsMountHelperCall(c) ==
    c \in {"vfat::Mount", "ntfs::Mount", "exfat::Mount", "ext4::Mount", "hfsplus::Mount",
           "iso9660::Mount"}

\* the step is a volume mount of the UNMOUNTED volume v that reached the
\* pre-mount check while the check helper reports failure
CheckFailing(v, u) ==
    /\ NamedMount(v, u)
    /\ MountsOn(mounts, RawPathOf(given'.probe.uuid)) = 0
    /\ given'.e.check # 0

-----------------------------------------------------------------------------
(* SpecPrep: mounts whose mount-point preparation meets every result of    *)
(* fs_prepare_dir and of the lazy umount2                                  *)

PrepProbes == {Ext4Probe, NtfsProbe}

\* umount2 results after which prepareDir prepares the directory again
LazyOk == {OK, EINVAL, ENOENT}

PrepEnvs ==
    {[MountOk EXCEPT !.prep1 = p1, !.um = um, !.prep2 = p2] :
        <<p1, um, p2>> \in
            {t \in {OK, ENOTCONN, EACCES} \X {OK, EINVAL, ENOENT, EBUSY} \X {OK, EACCES} :
                /\ t[1] # ENOTCONN => t[2] = OK /\ t[3] = OK
                /\ t[2] = EBUSY => t[3] = OK}}

\* volume mount <id> <flags> <user>, with what blkid and the helpers returned
\* kept in given
MountPrepared ==
    \E id \in VolumeIds(mDisks) : \E probe \in PrepProbes : \E e \in PrepEnvs :
        /\ VolumeCmd(<<"volume", "mount", id, "2", "10">>, probe, e, FormatOk)
        /\ given' = [probe |-> probe, e |-> e]

NextPrep ==
    \/ Add(UsbSources, FsOutputs) /\ Quiet
    \/ Remove /\ Quiet
    \/ Unmount /\ Quiet
    \/ MountPrepared /\ UNCHANGED <<log, mLock, pc>>

SpecPrep == Init /\ [][NextPrep]_vars

-----------------------------------------------------------------------------
(* C27 *)

IsPrepareCall(c) == c = "fs_prepare_dir"

IsLazyUmount(c) == c = "umount2"

\* the step is a volume mount of the UNMOUNTED volume v that reached
\* prepareDir
Preparing(v, u) ==
    /\ MountCalled(v, u)
    /\ SelectSeq(calls', IsPrepareCall) # <<>>

\* the helper results with which the claim lets preparation succeed
PrepSucceeds(e) ==
    \/ e.prep1 = OK
    \/ e.prep1 = ENOTCONN /\ e.um \in LazyOk /\ e.prep2 = OK

\* C27: a mount prepares its mount point at most twice, a second time exactly
\* when the first attempt failed with ENOTCONN and the lazy umount2 succeeded
\* or reported EINVAL or ENOENT; when the preparation fails the mount fails,
\* the volume is not MOUNTED and no mount helper has been called
C27_PrepareRetriedOnce ==
    [][\A v \in Named(mDisks, ret'.id) : \A u \in Named(mDisks', ret'.id) :
          Preparing(v, u) =>
             /\ Len(SelectSeq(calls', IsPrepareCall)) <= 2
             /\ Len(SelectSeq(calls', IsPrepareCall)) = 2
                   <=> (given'.e.prep1 = ENOTCONN /\ given'.e.um \in LazyOk)
             /\ Len(SelectSeq(calls', IsLazyUmount)) = 1
                   <=> given'.e.prep1 = ENOTCONN
             /\ ~PrepSucceeds(given'.e) =>
                   /\ ret'.code = "OperationFailed"
                   /\ u.mState # "MOUNTED"
                   /\ SelectSeq(calls', IsMountHelperCall) = <<>>
                   /\ mounts' = mounts
             /\ PrepSucceeds(given'.e) =>
                   /\ SelectSeq(calls', IsMountHelperCall) # <<>>
                   /\ ret'.code = "CommandOkay"]_vars

\* a mount succeeded after the first preparation failed with ENOTCONN and
\* the lazy umount2 reported that nothing was mounted
C27_Witness ==
    /\ ret.by = "volume" /\ ret.op = "mount" /\ ret.code = "CommandOkay"
    /\ given # <<>> /\ given.e.prep1 = ENOTCONN /\ given.e.um = EINVAL
    /\ Len(SelectSeq(calls, IsPrepareCall)) = 2

-----------------------------------------------------------------------------
(* C28 *)

\* the step is a volume unmount <id> of the MOUNTED volume v
UnmountCalled(v, u) ==
    /\ ret'.by = "volume" /\ ret'.op = "unmount" /\ ret'.id = v.mId
    /\ u.mId = v.mId
    /\ v.mState = "MOUNTED"

\* a loop mount is linked to the stable name of v
LoopLinked(v) == mLoop # "" /\ StartsWith(mLoop, RawPathOf(StableName(v)) \o "/")

\* the steps of an unmount of v, in order
UnmountSteps(v) ==
    <<"KillProcessesUsingPath">>
       \o (IF LoopLinked(v) THEN <<"unmountloop">> ELSE <<>>)
       \o <<"ForceUnmount">>
       \o (IF v.mFusePid > 0 THEN <<"kill">> ELSE <<>>)
       \o <<"rmdir">>

\* C28: an unmount of a MOUNTED volume kills the users of the path, releases
\* a loop mount linked to the stable name, force-unmounts rawPath, kills the
\* sidecar when its pid > 0 and removes the directory, in this order; it
\* answers success, the volume is UNMOUNTED, rawPath is empty, the sidecar
\* pid is 0, and no kernel mount and no directory is left at the old rawPath
C28_UnmountStepsInOrder ==
    [][\A v \in Named(mDisks, ret'.id) : \A u \in Named(mDisks', ret'.id) :
          UnmountCalled(v, u) =>
             /\ calls' = UnmountSteps(v)
             /\ ret'.code = "CommandOkay" /\ ret'.res = OK
             /\ u.mState = "UNMOUNTED"
             /\ u.mRawPath = "" /\ u.mFusePid = 0
             /\ MountsOn(mounts', v.mRawPath) = 0
             /\ v.mRawPath \notin dirs'
             /\ LoopLinked(v) => mLoop' = ""]_vars

\* an unmount released the loop mount under the volume's mount point on its
\* way
C28_Witness ==
    /\ ret.by = "volume" /\ ret.op = "unmount" /\ ret.code = "CommandOkay"
    /\ calls = <<"KillProcessesUsingPath", "unmountloop", "ForceUnmount", "rmdir">>
    /\ mLoop = ""
    /\ \E v \in Named(mDisks, ret.id) : v.mState = "UNMOUNTED" /\ v.mRawPath = ""

-----------------------------------------------------------------------------
(* C29 *)

\* the step takes main() to position p
Entered(p) == pc'["main"] = p /\ pc["main"] # p

\* the step takes main() from position at to position p with statement op
\* having returned success
EnteredFrom(p, at, op) ==
    Entered(p) => (pc["main"] = at /\ MainDid(op) /\ ret'.res = OK)

-----------------------------------------------------------------------------
(* SpecSr: an optical drive and a USB disk whose volumes are mounted as    *)
(* iso9660, udf or ext4, or not recognised, and unmounted again; each      *)
(* mount leaves its inputs in given                                        *)

SrSources == {Sr0Source, SdaSource}

SrOutputs == {MbrNone, NoTable}

SrProbes == {IsoProbe, [IsoProbe EXCEPT !.fsType = "udf"], Ext4Probe, NoProbe}

SrEnvs == {MountOk, [MountOk EXCEPT !.mnt = -1]}

\* volume mount <id> <flags> <user>, with what blkid and the helpers returned
\* kept in given
MountSr ==
    \E id \in VolumeIds(mDisks) : \E probe \in SrProbes : \E e \in SrEnvs :
        /\ VolumeCmd(<<"volume", "mount", id, "2", "10">>, probe, e, FormatOk)
        /\ given' = [probe |-> probe, e |-> e]

NextSr ==
    \/ Unplugged /\ Add(SrSources, SrOutputs) /\ Quiet
    \/ Rescan(SrOutputs) /\ Quiet
    \/ Remove /\ Quiet
    \/ Unmount /\ Quiet
    \/ MountSr /\ UNCHANGED <<log, mLock, pc>>

SpecSr == Init /\ [][NextSr]_vars

-----------------------------------------------------------------------------
(* C30 *)

\* a volume of disk d is MOUNTED with an iso9660 or udf filesystem
HasIsoMounted(d) ==
    \E i \in 1..Len(d.mVolumes) :
        /\ d.mVolumes[i].mState = "MOUNTED"
        /\ d.mVolumes[i].mFsType \in {"iso9660", "udf"}

\* C30: isSrdiskMounted() of a disk is true only while the disk is optical
\* and a volume of it is MOUNTED as iso9660 or udf
C30_SrMountedOnlyWhileMounted ==
    \A dev \in DOMAIN mDisks :
        isSrdiskMounted(mDisks[dev]) => (mDisks[dev].mSrdisk /\ HasIsoMounted(mDisks[dev]))

====
